---- MODULE Spec2Model ----
(***************************************************************************)
(* Workload identity federation proof of concept (manual-wif).             *)
(*                                                                         *)
(* The model follows one execution of execute_all.sh from the create-jwt   *)
(* step on: the assertion file is written once, the retry loop spawns      *)
(* exchange-token (stage A: STS token exchange, stage B: IAM               *)
(* generateAccessToken) up to MAX_RETRIES times, and list-topics presents  *)
(* the token file to Pub/Sub.  The three endpoints are the environment:    *)
(* each answer is drawn from a small set of responses, or never comes.     *)
(***************************************************************************)
EXTENDS Integers, Sequences, FiniteSets, TLC

(***************************************************************************)
(* Bounds of the model                                                     *)
(***************************************************************************)
\* number of distinct token values each endpoint may hand out
NumTokens == 2

(***************************************************************************)
(* Program constants                                                       *)
(***************************************************************************)
MAX_RETRIES == 30
RETRY_DELAY == 10
DefaultExpiresIn == 3600
StatusOK == 200

(***************************************************************************)
(* Values                                                                  *)
(***************************************************************************)
\* Byte strings are sequences of one-character strings.
Xs(n) == [k \in 1..n |-> "x"]
\* the opaque credentials the three parties hand out; bearer tokens are
\* b64token strings (RFC 6750), so none of them holds white space
Assertion(n) == <<"j">> \o Xs(n)
FedToken(n)  == <<"f">> \o Xs(n)
AccToken(n)  == <<"a">> \o Xs(n)
FedTokens == {FedToken(n) : n \in 1..NumTokens}
AccTokens == {AccToken(n) : n \in 1..NumTokens}
Empty == << >>
\* a path that names no file
NoFile == <<"ENOENT">>
\* the assertion a previous execution may have left in EXTERNAL_TOKEN_FILE
StaleAssertion == Assertion(0)
\* the token a previous execution may have left in GCP_ACCESS_TOKEN_FILE
StaleAccToken == AccToken(0)

\* a nil *TokenResponse
NilToken == [AccessToken |-> <<"nil">>, TokenType |-> "nil", ExpiresIn |-> 0]
\* a nil error
NoErr == [stage |-> "none", kind |-> "none", status |-> 0, body |-> << >>]
\* an error: the stage that reports it, its kind, and for the kind "status"
\* the two values the message is formatted from
MkErr(stage, kind, status) ==
  [stage |-> stage, kind |-> kind, status |-> status, body |-> << >>]

\* an error message that leaves out the body of the answer
StatusErrorWithoutBody(stage, status, body) == MkErr(stage, "status", status)

\* fmt.Errorf("... API error (status %d): %s", resp.StatusCode, string(body))
StatusError(stage, status, body) ==
  [stage |-> stage, kind |-> "status", status |-> status, body |-> body]

WhiteSpace == {" ", "\t", "\n", "\r"}

\* strings.TrimSpace
RECURSIVE TrimLeft(_)
TrimLeft(s) ==
  IF s # Empty /\ Head(s) \in WhiteSpace THEN TrimLeft(Tail(s)) ELSE s
RECURSIVE TrimRight(_)
TrimRight(s) ==
  IF s # Empty /\ s[Len(s)] \in WhiteSpace
    THEN TrimRight(SubSeq(s, 1, Len(s) - 1)) ELSE s
TrimSpace(s) == TrimRight(TrimLeft(s))

(***************************************************************************)
(* What an endpoint can answer to one request.                             *)
(*   net    "ok": a response arrived; "dial": client.Do / http.Post        *)
(*          returned an error; "read": io.ReadAll of the body failed       *)
(*   status the HTTP status code                                           *)
(*   json   the body parses as JSON                                        *)
(*   token  the token field of the body (Empty when the field is absent)   *)
(*   body   the bytes of the body, kept for the answers that are no 200    *)
(*   expireTime  the expireTime field of a generateAccessToken answer      *)
(*   topics the topics field of a Pub/Sub answer                           *)
(***************************************************************************)
\* a field the JSON document does not hold
Absent == <<"absent">>

Resp(net, status, json, token) ==
  [net |-> net, status |-> status, json |-> json, token |-> token,
   body |-> << >>, expireTime |-> Absent, topics |-> Absent]

\* the bodies a provider sends with an error status
ErrorBodies == { <<"e">>, <<" ", "e", "\n">> }

WithBody(r, b) == [r EXCEPT !.body = b]

NetFailures == {Resp("dial", 0, FALSE, Empty), Resp("read", StatusOK, FALSE, Empty)}

STSResponses ==
  NetFailures
    \cup {WithBody(Resp("ok", s, TRUE, Empty), b) : s \in {400, 500}, b \in ErrorBodies}
    \cup {Resp("ok", StatusOK, FALSE, Empty)}
    \cup {Resp("ok", StatusOK, TRUE, t) : t \in FedTokens \cup {Empty}}

\* the expireTime field of a generateAccessToken answer: absent, or an
\* RFC 3339 time one hour or twelve hours ahead
ExpireTimes == {Absent, <<"+", "1", "h">>, <<"+", "1", "2", "h">>}

WithExpireTime(r, t) == [r EXCEPT !.expireTime = t]

IAMResponses ==
  NetFailures
    \cup {WithBody(Resp("ok", s, TRUE, Empty), b) : s \in {403, 500}, b \in ErrorBodies}
    \cup {Resp("ok", StatusOK, FALSE, Empty)}
    \cup {WithExpireTime(Resp("ok", StatusOK, TRUE, t), x) :
            t \in AccTokens \cup {Empty}, x \in ExpireTimes}

\* topic names
TopicName(n) == <<"t">> \o Xs(n)
\* the topics field of a ListTopics answer: absent, null, or an array of
\* {"name": ...} objects
TopicLists == {Absent, <<"null">>, << >>, <<TopicName(2), TopicName(1)>>}

WithTopics(r, tl) == [r EXCEPT !.topics = tl]

PubSubResponses ==
  NetFailures
    \cup {WithTopics(WithBody(Resp("ok", s, TRUE, Empty), b), tl) :
            s \in {403}, b \in ErrorBodies,
            tl \in {Absent, <<TopicName(2), TopicName(1)>>}}
    \cup {Resp("ok", StatusOK, FALSE, Empty)}
    \cup {WithTopics(Resp("ok", StatusOK, TRUE, Empty), tl) : tl \in TopicLists}

VARIABLES
  \* execute_all.sh
  spc,            \* position of the script
  RETRY_COUNT,    \* the loop counter
  slept,          \* seconds spent in sleep so far
  scriptExit,     \* exit status of the script, -1 while it runs
  PROJECT_NUMBER, \* output of gcloud projects describe ("" when it failed)
  saUrlOk,        \* SA_EMAIL yields a URL http.NewRequest accepts
  \* files
  jwtFile,        \* content of EXTERNAL_TOKEN_FILE
  tokFile,        \* content of GCP_ACCESS_TOKEN_FILE
  \* the running exchange-token process
  epc,            \* "none", "start", "stageA", "stageB", "blockedA", "blockedB", "exited"
  externalToken,  \* main's externalToken
  federatedToken, \* main's federatedToken
  accessToken,    \* main's accessToken
  err,            \* the error main reported
  exitCode,       \* exit status, -1 while it runs
  reqA,           \* STS requests issued by this process
  reqB,           \* generateAccessToken requests issued by this process
  wireA,          \* subject_token of the last STS request
  bodyA,          \* body of the last STS request, as posted
  wireB,          \* bearer credential of the last generateAccessToken request
  stsIssued,      \* access_token of the 200 answer STS gave this process
  iamIssued,      \* accessToken of the 200 answer IAM gave this process
  \* the list-topics process
  lpc,            \* "none", "resource", "blocked", "exited"
  ltBearer,       \* bearer credential of the Pub/Sub request
  ltExit,         \* exit status, -1 while it runs
  ltErr,          \* the error main reported
  ltItems,        \* the topic names main printed, in the order printed
  \* history of the execution
  totA,           \* STS requests issued so far
  totB,           \* generateAccessToken requests issued so far
  onlyDenied,     \* every generateAccessToken request that did not end in a
                  \* saved token was answered 403
  bOkAt,          \* totB at the request whose token exchange-token saved, 0 if none
  submitted,      \* assertions submitted by earlier attempts
  \* a TokenCache shared by the goroutines of one process
  cNow,           \* the clock, in seconds
  cacheToken,     \* c.token
  cacheExpiresAt, \* c.expiresAt
  gpc,            \* position of each goroutine in GetToken
  gNew,           \* its newToken and expiresIn
  gRet,           \* the token its last call returned
  gVia,           \* how its last call ended: "none", "hit", "refresh"
  gAlone,         \* no other goroutine was in GetToken during its call
  gNow,           \* the reading of time.Now() its if statement compared
  nDerive,        \* calls of exchangeToken so far
  expiryOf,       \* the derivation c.expiresAt was computed from
  \* the key and assertion tools
  bpc,            \* position: of execute_all.sh in its key and assertion
                  \* steps, or of a user running one of the builders
  KEY_ID,         \* $KEY_ID of execute_all.sh
  privFile,       \* content of PRIVATE_KEY_FILE
  pubFile,        \* content of PUBLIC_KEY_FILE
  jwksFile,       \* content of JWKS_FILE
  jwksExported,   \* generate-jwk has written JWKS_FILE in this execution
  gkExit,         \* exit status of generate-keys, -1 before it has run
  gkErr,          \* the call of generate-keys that failed, "none" if none
  bProg,          \* the builder that ran last: "none", "create-jwt", "step2"
  bArgs,          \* its flags, or its config.json
  bNow,           \* its reading of the clock
  bKeyOpened,     \* it has opened the private key file
  bSigned,        \* it has called SignedString
  tokenString,    \* its tokenString
  bExit           \* its exit status, -1 before it has run

pipelineVars ==
  <<spc, RETRY_COUNT, slept, scriptExit, PROJECT_NUMBER, saUrlOk,
    jwtFile, tokFile,
    epc, externalToken, federatedToken, accessToken, err, exitCode,
    reqA, reqB, wireA, bodyA, wireB, stsIssued, iamIssued,
    lpc, ltBearer, ltExit, ltErr, ltItems,
    totA, totB, onlyDenied, bOkAt, submitted>>

cacheVars == <<cNow, cacheToken, cacheExpiresAt, gpc, gNew, gRet, gVia,
               gAlone, gNow, nDerive, expiryOf>>

builderVars == <<bpc, KEY_ID, privFile, pubFile, jwksFile, jwksExported,
                 gkExit, gkErr,
                 bProg, bArgs, bNow, bKeyOpened, bSigned, tokenString, bExit>>

\* what the steps of execute_all.sh from the retry loop on never touch
sideVars == <<cacheVars, builderVars>>

vars == <<pipelineVars, sideVars>>

scriptVars == <<spc, RETRY_COUNT, slept, scriptExit, PROJECT_NUMBER, saUrlOk>>
procVars == <<epc, externalToken, federatedToken, accessToken, err, exitCode,
              reqA, reqB, wireA, bodyA, wireB, stsIssued, iamIssued>>
ltVars == <<lpc, ltBearer, ltExit, ltErr, ltItems>>
histVars == <<totA, totB, onlyDenied, bOkAt, submitted>>


(***************************************************************************)
(* cmd/exchange-token                                                      *)
(***************************************************************************)
\* the flags execute_all.sh passes; $PROJECT_NUMBER is expanded unquoted, so
\* an empty value makes --project-number swallow the next word and flag
\* parsing stop at the first word that is no flag
ExchangeFlags ==
  IF PROJECT_NUMBER = ""
    THEN [projectNumber |-> "--pool-id", poolID |-> "", providerID |-> "",
          serviceAccount |-> "", tokenPath |-> "", outputPath |-> ""]
    ELSE [projectNumber |-> PROJECT_NUMBER, poolID |-> "name",
          providerID |-> "external-jwt-provider-name",
          serviceAccount |-> "sa-email", tokenPath |-> "EXTERNAL_TOKEN_FILE",
          outputPath |-> "GCP_ACCESS_TOKEN_FILE"]

\* main: the check of the required flags
MissingParams(f) ==
  \/ f.projectNumber = "" \/ f.poolID = "" \/ f.providerID = ""
  \/ f.serviceAccount = "" \/ f.tokenPath = "" \/ f.outputPath = ""

\* callSTSEndpoint after http.Post returned: the (*TokenResponse, error) pair
callSTSEndpoint(resp) ==
  IF resp.net = "dial"
    THEN [tok |-> NilToken, err |-> MkErr("STS", "transport", 0)]
  ELSE IF resp.net = "read"
    THEN [tok |-> NilToken, err |-> MkErr("STS", "readbody", 0)]
  ELSE IF resp.status # StatusOK
    THEN [tok |-> NilToken, err |-> StatusError("STS", resp.status, resp.body)]
  ELSE IF ~resp.json
    THEN [tok |-> NilToken, err |-> MkErr("STS", "parse", 0)]
  ELSE [tok |-> [AccessToken |-> resp.token, TokenType |-> "Bearer",
                 ExpiresIn |-> DefaultExpiresIn],
        err |-> NoErr]

\* an exchangeForAccessToken that takes the lifetime from expireTime
exchangeForAccessTokenByExpireTime(resp) ==
  IF resp.net # "ok" \/ resp.status # StatusOK \/ ~resp.json
    THEN [tok |-> NilToken, err |-> MkErr("IAM", "other", 0)]
    ELSE [tok |-> [AccessToken |-> resp.token, TokenType |-> "Bearer",
                   ExpiresIn |-> IF resp.expireTime = <<"+", "1", "2", "h">>
                                   THEN 12 * DefaultExpiresIn
                                   ELSE DefaultExpiresIn],
          err |-> NoErr]

\* exchangeForAccessToken after client.Do returned
exchangeForAccessToken(resp) ==
  IF resp.net = "dial"
    THEN [tok |-> NilToken, err |-> MkErr("IAM", "transport", 0)]
  ELSE IF resp.net = "read"
    THEN [tok |-> NilToken, err |-> MkErr("IAM", "readbody", 0)]
  ELSE IF resp.status # StatusOK
    THEN [tok |-> NilToken, err |-> StatusError("IAM", resp.status, resp.body)]
  ELSE IF ~resp.json
    THEN [tok |-> NilToken, err |-> MkErr("IAM", "parse", 0)]
  ELSE [tok |-> [AccessToken |-> resp.token, TokenType |-> "Bearer",
                 ExpiresIn |-> DefaultExpiresIn],
        err |-> NoErr]

\* a main that does not test the error of stage A
StageAFailedIgnored(r) == FALSE

\* a main that takes an answer without a token for a failure of stage A
StageAFailedOnEmptyToken(r) == r.err # NoErr \/ r.tok.AccessToken = Empty

\* main line 66: stage B is reached only when stage A returned no error
StageAFailed(r) == r.err # NoErr

\* a main that hands the external JWT to stage B
StageBCredentialExternal(ext, fed) == ext

\* main line 81: the token handed to exchangeForAccessToken
StageBCredential(ext, fed) == fed.AccessToken

\* a main that saves the federated token
OutputBytesFederated(fed, acc) == fed.AccessToken

\* a main that ends the saved token with a newline
OutputBytesWithNewline(fed, acc) == acc.AccessToken \o <<"\n">>

\* main line 93: the bytes written to the output file
OutputBytes(fed, acc) == acc.AccessToken

\* os.Exit(code) after printing e
Exit(code, e) ==
  /\ epc' = "exited"
  /\ exitCode' = code
  /\ err' = e

\* fmt.Sprintf of three %s verbs: the pieces of the format and the arguments
Sprintf3(lit0, a1, lit1, a2, lit2, a3) == <<lit0, a1, lit1, a2, lit2, a3>>

\* exchangeForFederatedToken with pool and provider in each other's place
STSRequestBodySwapped(externalToken_, projectNumber, poolID, providerID) ==
  [grant_type |-> "urn:ietf:params:oauth:grant-type:token-exchange",
   audience |-> Sprintf3("//iam.googleapis.com/projects/", projectNumber,
                         "/locations/global/workloadIdentityPools/", providerID,
                         "/providers/", poolID),
   requested_token_type |-> "urn:ietf:params:oauth:token-type:access_token",
   subject_token_type |-> "urn:ietf:params:oauth:token-type:jwt",
   subject_token |-> externalToken_,
   scope |-> "https://www.googleapis.com/auth/cloud-platform"]

\* exchangeForFederatedToken lines 112-126: audience and requestBody
STSRequestBody(externalToken_, projectNumber, poolID, providerID) ==
  [grant_type |-> "urn:ietf:params:oauth:grant-type:token-exchange",
   audience |-> Sprintf3("//iam.googleapis.com/projects/", projectNumber,
                         "/locations/global/workloadIdentityPools/", poolID,
                         "/providers/", providerID),
   requested_token_type |-> "urn:ietf:params:oauth:token-type:access_token",
   subject_token_type |-> "urn:ietf:params:oauth:token-type:jwt",
   subject_token |-> externalToken_,
   scope |-> "https://www.googleapis.com/auth/cloud-platform"]

\* url.QueryEscape and url.QueryUnescape
QueryEscape(v) == <<"%", v>>
QueryUnescape(e) == e[2]

\* url.Values.Encode writes key=value pairs sorted by key; the parameters
\* of a token exchange (RFC 8693) in that order
FormKeyOrder ==
  <<"actor_token", "actor_token_type", "audience", "grant_type", "options",
    "requested_token_type", "resource", "scope", "subject_token",
    "subject_token_type">>

\* callSTSEndpoint lines 199-207: formData.Set for each entry, Encode
Encode(requestBody) ==
  LET ks == SelectSeq(FormKeyOrder, LAMBDA k : k \in DOMAIN requestBody)
  IN [i \in 1..Len(ks) |-> <<ks[i], QueryEscape(requestBody[ks[i]])>>]

\* url.ParseQuery at the endpoint: the parameters of a posted form
ParseQuery(body) ==
  [k \in {body[i][1] : i \in 1..Len(body)} |->
     LET i == CHOOSE j \in 1..Len(body) : body[j][1] = k
     IN QueryUnescape(body[i][2])]

\* main lines 52-65: read the token file, post the form to the STS endpoint
LoadAndPost(f) ==
  IF jwtFile = NoFile
    THEN /\ Exit(1, MkErr("main", "readtoken", 0))
         /\ UNCHANGED <<externalToken, reqA, wireA, bodyA, totA, submitted>>
    ELSE /\ externalToken' = jwtFile
         /\ wireA' = jwtFile
         /\ bodyA' = Encode(STSRequestBody(jwtFile, f.projectNumber,
                                           f.poolID, f.providerID))
         /\ reqA' = reqA + 1
         /\ totA' = totA + 1
         /\ submitted' = submitted \cup {jwtFile}
         /\ epc' = "stageA"
         /\ UNCHANGED <<exitCode, err>>

\* what main leaves alone up to the STS request
BeforeSTSFrame ==
  /\ UNCHANGED <<federatedToken, accessToken, reqB, wireB, stsIssued, iamIssued>>
  /\ UNCHANGED <<totB, onlyDenied, bOkAt>>
  /\ UNCHANGED <<scriptVars, jwtFile, tokFile, ltVars>>
  /\ UNCHANGED sideVars

\* main up to the STS request, run with the flags f
MainBeforeSTS(f) ==
  /\ epc = "start"
  /\ IF MissingParams(f)
       THEN /\ Exit(1, MkErr("main", "args", 0))
            /\ UNCHANGED <<externalToken, reqA, wireA, bodyA, totA, submitted>>
       ELSE LoadAndPost(f)
  /\ BeforeSTSFrame

\* main of step3_exchange_token up to the STS request; cfgOk: config.json
\* was read and parsed; no field of the config is tested
Step3BeforeSTS(cfgOk, c) ==
  /\ epc = "start"
  /\ IF ~cfgOk
       THEN /\ Exit(1, MkErr("main", "config", 0))
            /\ UNCHANGED <<externalToken, reqA, wireA, bodyA, totA, submitted>>
       ELSE LoadAndPost(c)
  /\ BeforeSTSFrame

\* exchange-token as execute_all.sh starts it, up to the STS request
ExchangeMain ==
  /\ epc = "start"
  /\ spc = "exchange"
  /\ MainBeforeSTS(ExchangeFlags)

\* the flags a user may hand to exchange-token, "" for a flag left out
ManualExchangeFlags ==
  [projectNumber : {"", "1", "2"}, poolID : {"", "p", "q"},
   providerID : {"", "p", "q"}, serviceAccount : {"", "sa-email"},
   tokenPath : {"", "EXTERNAL_TOKEN_FILE"},
   outputPath : {"", "GCP_ACCESS_TOKEN_FILE"}]

\* the fields config.json may hold, "" for a field left out
Step3Configs ==
  [projectNumber : {"", "1", "2"}, poolID : {"", "p", "q"},
   providerID : {"", "p", "q"}, serviceAccount : {"", "sa-email"}]

\* a user runs exchange-token with flags of their own
RunExchangeToken(f) ==
  /\ spc = "manual"
  /\ MainBeforeSTS(f)

\* a user runs step3_exchange_token
RunStep3(cfgOk, c) ==
  /\ spc = "step3"
  /\ Step3BeforeSTS(cfgOk, c)

\* main lines 65-81, with the answer of the STS endpoint in hand
MainAfterSTS(resp) ==
  /\ stsIssued' = IF resp.net = "ok" /\ resp.status = StatusOK /\ resp.json
                    THEN resp.token ELSE stsIssued
  /\ LET r == callSTSEndpoint(resp) IN
       IF StageAFailed(r)
         THEN /\ Exit(1, r.err)
              /\ UNCHANGED <<federatedToken, reqB, wireB, totB>>
       ELSE IF ~saUrlOk
         THEN \* http.NewRequest rejects the URL
              /\ Exit(1, MkErr("IAM", "newrequest", 0))
              /\ federatedToken' = r.tok
              /\ UNCHANGED <<reqB, wireB, totB>>
       ELSE /\ federatedToken' = r.tok
            /\ wireB' = StageBCredential(externalToken, r.tok)
            /\ reqB' = reqB + 1
            /\ totB' = totB + 1
            /\ epc' = "stageB"
            /\ UNCHANGED <<exitCode, err>>
  /\ UNCHANGED <<externalToken, accessToken, reqA, wireA, bodyA, iamIssued>>
  /\ UNCHANGED <<totA, onlyDenied, bOkAt, submitted>>
  /\ UNCHANGED <<scriptVars, jwtFile, tokFile, ltVars>>
  /\ UNCHANGED sideVars

\* a callSTSEndpoint that posts the request again after a non-200 answer
STSReturnResending(resp) ==
  /\ epc = "stageA"
  /\ IF resp.net = "ok" /\ resp.status # StatusOK /\ reqA < 2
       THEN /\ reqA' = reqA + 1
            /\ totA' = totA + 1
            /\ UNCHANGED <<epc, externalToken, federatedToken, accessToken, err,
                           exitCode, reqB, wireA, bodyA, wireB, stsIssued,
                           iamIssued>>
            /\ UNCHANGED <<totB, onlyDenied, bOkAt, submitted>>
            /\ UNCHANGED <<scriptVars, jwtFile, tokFile, ltVars>>
            /\ UNCHANGED sideVars
       ELSE MainAfterSTS(resp)

\* http.Post returned in callSTSEndpoint; main goes on to the IAM request
STSReturn(resp) ==
  /\ epc = "stageA"
  /\ MainAfterSTS(resp)

\* the STS endpoint never answers: http.Post uses http.DefaultClient, whose
\* Timeout is zero (no timeout), so the call never returns
STSNoAnswer ==
  /\ epc = "stageA"
  /\ epc' = "blockedA"
  /\ UNCHANGED <<externalToken, federatedToken, accessToken, err, exitCode,
                 reqA, reqB, wireA, bodyA, wireB, stsIssued, iamIssued>>
  /\ UNCHANGED <<scriptVars, jwtFile, tokFile, ltVars, histVars>>
  /\ UNCHANGED sideVars

\* os.WriteFile(path, data): written; not opened; opened (truncated) and
\* the write failed
WriteOutcomes == {"ok", "open", "write"}

\* client.Do returned in exchangeForAccessToken; main saves the token
IAMReturn(resp, w) ==
  /\ epc = "stageB"
  /\ iamIssued' = IF resp.net = "ok" /\ resp.status = StatusOK /\ resp.json
                    THEN resp.token ELSE iamIssued
  /\ LET r == exchangeForAccessToken(resp) IN
       IF r.err # NoErr
         THEN /\ Exit(1, r.err)
              /\ onlyDenied' = (onlyDenied /\ r.err.status = 403)
              /\ UNCHANGED <<accessToken, tokFile, bOkAt>>
       ELSE /\ accessToken' = r.tok
            /\ IF w = "ok"
                 THEN /\ tokFile' = OutputBytes(federatedToken, r.tok)
                      /\ Exit(0, NoErr)
               ELSE IF w = "open"
                 THEN /\ Exit(1, MkErr("main", "writetoken", 0))
                      /\ UNCHANGED tokFile
               ELSE /\ Exit(1, MkErr("main", "writetoken", 0))
                    /\ tokFile' = Empty
            /\ IF w = "ok" /\ r.tok.AccessToken # Empty
                 THEN bOkAt' = totB /\ UNCHANGED onlyDenied
                 ELSE onlyDenied' = FALSE /\ UNCHANGED bOkAt
  /\ UNCHANGED <<externalToken, federatedToken, reqA, reqB, wireA, bodyA,
                 wireB, stsIssued>>
  /\ UNCHANGED <<totA, totB, submitted>>
  /\ UNCHANGED <<scriptVars, jwtFile, ltVars>>
  /\ UNCHANGED sideVars

\* the IAM endpoint never answers: &http.Client{} has no Timeout
IAMNoAnswer ==
  /\ epc = "stageB"
  /\ epc' = "blockedB"
  /\ UNCHANGED <<externalToken, federatedToken, accessToken, err, exitCode,
                 reqA, reqB, wireA, bodyA, wireB, stsIssued, iamIssued>>
  /\ UNCHANGED <<scriptVars, jwtFile, tokFile, ltVars, histVars>>
  /\ UNCHANGED sideVars

(***************************************************************************)
(* cmd/list-topics                                                         *)
(***************************************************************************)
\* a client that takes a missing item list for a failure
listPubSubTopicsByItems(resp) ==
  IF resp.net = "dial" THEN MkErr("PubSub", "transport", 0)
  ELSE IF resp.net = "read" THEN MkErr("PubSub", "readbody", 0)
  ELSE IF resp.status # StatusOK \/ resp.topics = Absent
    THEN StatusError("PubSub", resp.status, resp.body)
  ELSE IF ~resp.json THEN MkErr("PubSub", "parse", 0)
  ELSE NoErr

\* listPubSubTopics after client.Do returned: the error, NoErr on success
listPubSubTopics(resp) ==
  IF resp.net = "dial" THEN MkErr("PubSub", "transport", 0)
  ELSE IF resp.net = "read" THEN MkErr("PubSub", "readbody", 0)
  ELSE IF resp.status # StatusOK
    THEN StatusError("PubSub", resp.status, resp.body)
  ELSE IF ~resp.json THEN MkErr("PubSub", "parse", 0)
  ELSE NoErr

\* json.Unmarshal into PubSubTopicsResponse: the names of topicsResp.Topics;
\* an absent or null topics field leaves the nil slice
UnmarshalTopics(resp) ==
  IF resp.topics \in {Absent, <<"null">>} THEN << >> ELSE resp.topics

\* main lines 627-636: the names printed after "Found %d topic(s)", none
\* after "No topics found in project."
PrintedTopics(topics) ==
  IF Len(topics) = 0 THEN << >> ELSE [i \in 1..Len(topics) |-> topics[i]]

\* main line 615: the credential list-topics presents
ResourceCredential(fileBytes) == TrimSpace(fileBytes)

\* client.Do returned in listPubSubTopics; main reports and exits
PubSubReturn(resp) ==
  /\ lpc = "resource"
  /\ lpc' = "exited"
  /\ ltErr' = listPubSubTopics(resp)
  /\ IF listPubSubTopics(resp) # NoErr
       THEN ltExit' = 1 /\ UNCHANGED ltItems
       ELSE ltExit' = 0 /\ ltItems' = PrintedTopics(UnmarshalTopics(resp))
  /\ UNCHANGED ltBearer
  /\ UNCHANGED <<scriptVars, jwtFile, tokFile, procVars, histVars>>
  /\ UNCHANGED sideVars

\* the Pub/Sub endpoint never answers: &http.Client{} has no Timeout
PubSubNoAnswer ==
  /\ lpc = "resource"
  /\ lpc' = "blocked"
  /\ UNCHANGED <<ltBearer, ltExit, ltErr, ltItems>>
  /\ UNCHANGED <<scriptVars, jwtFile, tokFile, procVars, histVars>>
  /\ UNCHANGED sideVars

(***************************************************************************)
(* execute_all.sh                                                          *)
(***************************************************************************)
\* the assertion create-jwt signs in this execution
NewAssertion == Assertion(1)

\* go run cmd/create-jwt/main.go ...: the token file is written, or the
\* command fails and the script, which does not test its status, goes on
CreateJwt(ok) ==
  /\ spc = "createJwt"
  /\ jwtFile' = IF ok THEN NewAssertion ELSE jwtFile
  /\ spc' = "loop"
  /\ UNCHANGED <<RETRY_COUNT, slept, scriptExit, PROJECT_NUMBER, saUrlOk>>
  /\ UNCHANGED <<tokFile, procVars, ltVars, histVars>>
  /\ UNCHANGED sideVars

\* a process that finds the federated token of the last one
NoProcessKeepingFederated(pc) ==
  /\ epc' = pc
  /\ externalToken' = Empty
  /\ federatedToken' = federatedToken
  /\ accessToken' = NilToken
  /\ err' = NoErr
  /\ exitCode' = -1
  /\ reqA' = 0
  /\ reqB' = 0
  /\ wireA' = Empty
  /\ bodyA' = Empty
  /\ wireB' = Empty
  /\ stsIssued' = NoFile
  /\ iamIssued' = NoFile

\* the memory of an exchange-token process that has not run yet, and what
\* the endpoints have told it
NoProcess(pc) ==
  /\ epc' = pc
  /\ externalToken' = Empty
  /\ federatedToken' = NilToken
  /\ accessToken' = NilToken
  /\ err' = NoErr
  /\ exitCode' = -1
  /\ reqA' = 0
  /\ reqB' = 0
  /\ wireA' = Empty
  /\ bodyA' = Empty
  /\ wireB' = Empty
  /\ stsIssued' = NoFile
  /\ iamIssued' = NoFile

\* while [ $RETRY_COUNT -lt $MAX_RETRIES ]
LoopCondition(count) == count < MAX_RETRIES

\* the head of the loop body: count, rm -f the output, start exchange-token
LoopIter ==
  /\ spc = "loop"
  /\ IF LoopCondition(RETRY_COUNT)
       THEN /\ RETRY_COUNT' = RETRY_COUNT + 1
            /\ tokFile' = NoFile
            /\ spc' = "exchange"
            \* a new process: nothing is carried over from the last one
            /\ NoProcess("start")
            /\ UNCHANGED ltVars
       ELSE /\ spc' = "listTopics"
            /\ UNCHANGED <<RETRY_COUNT, tokFile, procVars, ltVars>>
  /\ UNCHANGED <<slept, scriptExit, PROJECT_NUMBER, saUrlOk, jwtFile, histVars>>
  /\ UNCHANGED sideVars

\* a test that takes the missing output file for the success
AttemptSucceededInverted(code, file) == code = 0 /\ file = NoFile

\* a test that looks at the exit status only
AttemptSucceededByStatus(code, file) == code = 0

\* if go run ...; then if [ -f "$F" ] && [ -s "$F" ]; then ... break
AttemptSucceeded(code, file) == code = 0 /\ file # NoFile /\ Len(file) > 0

\* a loop body that sleeps after the last attempt as well
RetryAgainInclusive(count) == count <= MAX_RETRIES

\* a loop body that never gives up
RetryAgainAlways(count) == TRUE

\* if [ $RETRY_COUNT -lt $MAX_RETRIES ]; then ... sleep; else ... exit 1
RetryAgain(count) == count < MAX_RETRIES

\* the rest of the loop body, once exchange-token has exited
AttemptCheck ==
  /\ spc = "exchange"
  /\ epc = "exited"
  /\ IF AttemptSucceeded(exitCode, tokFile)
       THEN /\ spc' = "listTopics"
            /\ UNCHANGED <<slept, scriptExit, procVars>>
     ELSE IF RetryAgain(RETRY_COUNT)
       THEN /\ slept' = slept + RETRY_DELAY
            /\ spc' = "loop"
            /\ NoProcess("none")
            /\ UNCHANGED scriptExit
     ELSE /\ spc' = "exit1"
          /\ scriptExit' = 1
          /\ UNCHANGED <<slept, procVars>>
  /\ UNCHANGED <<RETRY_COUNT, PROJECT_NUMBER, saUrlOk>>
  /\ UNCHANGED <<jwtFile, tokFile, ltVars, histVars>>
  /\ UNCHANGED sideVars

\* go run cmd/list-topics/main.go: main up to the Pub/Sub request
RunListTopics ==
  /\ spc = "listTopics"
  /\ spc' = "listing"
  /\ IF tokFile = NoFile
       THEN /\ lpc' = "exited"
            /\ ltExit' = 1
            /\ ltErr' = MkErr("main", "readtoken", 0)
            /\ UNCHANGED <<ltBearer, ltItems>>
       ELSE /\ lpc' = "resource"
            /\ ltBearer' = ResourceCredential(tokFile)
            /\ UNCHANGED <<ltExit, ltErr, ltItems>>
  /\ UNCHANGED <<RETRY_COUNT, slept, scriptExit, PROJECT_NUMBER, saUrlOk>>
  /\ UNCHANGED <<jwtFile, tokFile, procVars, histVars>>
  /\ UNCHANGED sideVars

\* the banner and the summary after list-topics, whatever its status
ScriptFinish ==
  /\ spc = "listing"
  /\ lpc = "exited"
  /\ spc' = "done"
  /\ scriptExit' = 0
  /\ UNCHANGED <<RETRY_COUNT, slept, PROJECT_NUMBER, saUrlOk>>
  /\ UNCHANGED <<jwtFile, tokFile, procVars, ltVars, histVars>>
  /\ UNCHANGED sideVars

(***************************************************************************)
(* Keys and assertions: cmd/generate-keys, cmd/generate-jwk,               *)
(* cmd/create-jwt and step2_create_jwt.go                                  *)
(***************************************************************************)
\* the clock of a builder counts ticks, TicksPerSecond to the second
TicksPerSecond == 2
\* a builder reads the clock at one of the ticks 0..MaxBuilderTicks
MaxBuilderTicks == 3
\* 1 * time.Hour, in seconds
HourSeconds == 3600

\* Time.Unix
Unix(t) == t \div TicksPerSecond
\* Time.Add, the duration in seconds
AddSeconds(t, secs) == t + secs * TicksPerSecond

\* key files: a PEM block of a key pair, or bytes that hold no PEM block
PrivKey(n) == [pem |-> "RSA PRIVATE KEY", key |-> n]
PubKey(n) == [pem |-> "PUBLIC KEY", key |-> n]
NotPEM == [pem |-> "none", key |-> 0]

\* base64.RawURLEncoding and its inverse
EncodeSegment(x) == <<"b64url", x>>
DecodeSegment(s) == s[2]

\* json.Marshal writes the keys of a map in sorted order
HeaderOrder == <<"alg", "kid", "typ">>
ClaimOrder == <<"aud", "email", "environment", "exp", "iat", "iss", "sub">>

\* json.Marshal of a map: the members, as <<key, value>> in key order
Marshal(m, order) ==
  LET ks == SelectSeq(order, LAMBDA k : k \in DOMAIN m)
  IN [i \in 1..Len(ks) |-> <<ks[i], m[ks[i]]>>]

\* json.Unmarshal into a map
Unmarshal(members) ==
  [k \in {members[i][1] : i \in 1..Len(members)} |->
     LET i == CHOOSE j \in 1..Len(members) : members[j][1] = k
     IN members[i][2]]

\* a signature that does not depend on the key
RS256Unkeyed(key, input) == [signer |-> 0, input |-> input]

\* rsa.SignPKCS1v15 over the signing input
RS256(key, input) == [signer |-> key.key, input |-> input]

\* jwt.NewWithClaims(jwt.SigningMethodRS256, claims), Header["kid"] = kid
NewHeader(kid) == [alg |-> "RS256", kid |-> kid, typ |-> "JWT"]

\* token.SignedString(privateKey): header.claims.signature
SignedString(header, claims, key) ==
  LET h == EncodeSegment(Marshal(header, HeaderOrder))
      c == EncodeSegment(Marshal(claims, ClaimOrder))
  IN <<h, c, EncodeSegment(RS256(key, <<h, c>>))>>

\* what a verifier reads from the three segments
Decode(tok) ==
  [header |-> Unmarshal(DecodeSegment(tok[1])),
   claims |-> Unmarshal(DecodeSegment(tok[2])),
   signature |-> DecodeSegment(tok[3])]

\* RS256 verification of an assertion against a public key: the signature
\* was made with the private half of that key over the first two segments
Verify(tok, pub) ==
  /\ pub.pem = "PUBLIC KEY"
  /\ LET sig == DecodeSegment(tok[3]) IN
       /\ sig.signer = pub.key
       /\ sig.input = <<tok[1], tok[2]>>

\* the key pairs: 0 left by an earlier execution, 1 generated in this one
KeyPairs == {0, 1}

\* "iat": now.Unix()
IssuedAt(now) == Unix(now)

\* an expiry without the validity window
ExpiresAtWithoutWindow(now) == Unix(now)

\* "exp": now.Add(1 * time.Hour).Unix()
ExpiresAt(now) == Unix(AddSeconds(now, HourSeconds))

\* all the values a claim set can be built from
ClaimValues(a, now) ==
  [iss |-> a.issuer, sub |-> a.subject, aud |-> a.audience,
   iat |-> IssuedAt(now), exp |-> ExpiresAt(now),
   email |-> a.email, environment |-> a.environment]

\* create-jwt lines 75-89: email and environment only when not empty
CreateJwtClaims(a, now) ==
  LET keys == {"iss", "sub", "aud", "iat", "exp"}
                \cup (IF a.email # "" THEN {"email"} ELSE {})
                \cup (IF a.environment # "" THEN {"environment"} ELSE {})
  IN [k \in keys |-> ClaimValues(a, now)[k]]

\* step2_create_jwt.go lines 76-87: all seven claims, whatever their value
Step2Claims(a, now) ==
  [k \in {"iss", "sub", "aud", "iat", "exp", "email", "environment"} |->
     ClaimValues(a, now)[k]]

\* a key file that does not exist
NoKeyFile == [pem |-> "ENOENT", key |-> 0]

\* the numbers of key pair k: modulus, public exponent, private exponent
Modulus(k) == <<"N", k>>
PublicExponent(k) == <<"E", k>>
PrivateExponent(k) == <<"D", k>>

\* a JWK that exports the private exponent with the public numbers
JWKWithPrivateExponent(kid, pub) ==
  [kty |-> "RSA", use |-> "sig", kid |-> kid, alg |-> "RS256",
   n |-> <<"b64url", Modulus(pub.key)>>,
   e |-> <<"b64url", PublicExponent(pub.key)>>,
   d |-> <<"b64url", PrivateExponent(pub.key)>>]

\* JWK_FILE and JWKS_FILE: the JSON documents generate-jwk marshals
JWK(kid, pub) ==
  [kty |-> "RSA", use |-> "sig", kid |-> kid, alg |-> "RS256",
   n |-> EncodeSegment(<<"N", pub.key>>), e |-> EncodeSegment(<<"E", pub.key>>)]
JWKSDoc(jwk) == [exists |-> TRUE, keys |-> <<jwk>>]
NoJwks == [exists |-> FALSE, keys |-> << >>]
\* a file that was opened for writing and holds nothing
TruncatedJwks == [exists |-> TRUE, keys |-> << >>]

KeyIds == {"key-1", "key-2"}

\* export KEY_ID="${KEY_ID:-key-1}"
KeyIdOrDefault(env) == IF env = "" THEN "key-1" ELSE env

\* the flags of a builder before it has run
NoArgs ==
  [keyID |-> "", issuer |-> "", audience |-> "", subject |-> "", email |-> "",
   environment |-> "", privateKey |-> "", output |-> ""]

\* a create-jwt step that passes the default key id whatever $KEY_ID holds
ScriptJwtFlagsDefaultKey(keyId) ==
  [keyID |-> "key-1", issuer |-> "https://my-external-idp.example.com",
   audience |-> "gcp-workload-identity", subject |-> "external-user-123",
   email |-> "user@example.com", environment |-> "production",
   privateKey |-> "PRIVATE_KEY_FILE", output |-> "EXTERNAL_TOKEN_FILE"]

\* execute_all.sh lines 131-139: the flags of the create-jwt step
ScriptJwtFlags(keyId) ==
  [keyID |-> keyId, issuer |-> "https://my-external-idp.example.com",
   audience |-> "gcp-workload-identity", subject |-> "external-user-123",
   email |-> "user@example.com", environment |-> "production",
   privateKey |-> "PRIVATE_KEY_FILE", output |-> "EXTERNAL_TOKEN_FILE"]

\* the flags a user may hand to create-jwt, "" for a flag left out
ManualFlags ==
  [keyID : {"", "key-1"}, issuer : {"", "iss"}, audience : {"", "aud"},
   subject : {"", "sub"}, email : {"", "em"}, environment : {"", "env"},
   privateKey : {"", "PRIVATE_KEY_FILE"}, output : {"", "EXTERNAL_TOKEN_FILE"}]

\* the fields config.json may hold, "" for a field left out; the two paths
\* are fixed in step2_create_jwt.go
Step2Configs ==
  [keyID : {"", "key-1"}, issuer : {"", "iss"}, audience : {"", "aud"},
   subject : {"", "sub"}, email : {"", "em"}, environment : {"", "env"},
   privateKey : {"private_key.pem"}, output : {"external_token.jwt"}]

\* the output file was not opened
Unwritten == <<"unwritten">>

\* how a builder ended: exit status, whether it opened the key file and
\* called SignedString, its tokenString, and the bytes it left in the
\* output file
BuilderResult(exit, opened, signed, tok, file) ==
  [exit |-> exit, opened |-> opened, signed |-> signed, tok |-> tok,
   file |-> file]

\* lines 54-106 of both builders: load the key, sign the claims, save
LoadSignSave(kid, claims, keyFile, signOk, w) ==
  IF keyFile = NoKeyFile
    THEN BuilderResult(1, TRUE, FALSE, Empty, Unwritten)   \* os.ReadFile
  ELSE IF keyFile.pem = "none"
    THEN BuilderResult(1, TRUE, FALSE, Empty, Unwritten)   \* pem.Decode
  ELSE IF keyFile.pem # "RSA PRIVATE KEY"
    THEN BuilderResult(1, TRUE, FALSE, Empty, Unwritten)   \* ParsePKCS1PrivateKey
  ELSE IF ~signOk
    THEN BuilderResult(1, TRUE, TRUE, Empty, Unwritten)    \* SignedString
  ELSE LET tok == SignedString(NewHeader(kid), claims, keyFile) IN
       IF w = "ok" THEN BuilderResult(0, TRUE, TRUE, tok, tok)
       ELSE IF w = "open" THEN BuilderResult(1, TRUE, TRUE, tok, Unwritten)
       ELSE BuilderResult(1, TRUE, TRUE, tok, Empty)

\* create-jwt line 26: a required flag is missing or empty
MissingRequired(f) ==
  \/ f.keyID = "" \/ f.issuer = "" \/ f.audience = "" \/ f.subject = ""
  \/ f.privateKey = "" \/ f.output = ""

\* main of cmd/create-jwt
CreateJwtMain(f, keyFile, now, signOk, w) ==
  IF MissingRequired(f)
    THEN BuilderResult(1, FALSE, FALSE, Empty, Unwritten)
    ELSE LoadSignSave(f.keyID, CreateJwtClaims(f, now), keyFile, signOk, w)

\* main of step2_create_jwt.go; cfgOk: config.json was read and parsed
Step2Main(cfgOk, c, keyFile, now, signOk, w) ==
  IF ~cfgOk
    THEN BuilderResult(1, FALSE, FALSE, Empty, Unwritten)
    ELSE LoadSignSave(c.keyID, Step2Claims(c, now), keyFile, signOk, w)

\* main of cmd/generate-jwk: exit status, whether JWKS_FILE was opened for
\* writing, and the bytes left in it
GenerateJwkMain(keyId, pub, o) ==
  IF keyId = "" \/ pub.pem # "PUBLIC KEY" \/ o \in {"jwk", "jwksOpen"}
    THEN [exit |-> 1, opened |-> FALSE, jwks |-> NoJwks]
  ELSE IF o = "jwksWrite"
    THEN [exit |-> 1, opened |-> TRUE, jwks |-> TruncatedJwks]
  ELSE [exit |-> 0, opened |-> TRUE, jwks |-> JWKSDoc(JWK(keyId, pub))]

\* main of step1b_generate_jwk: the key id comes from config.json and is
\* not tested; cfgOk: config.json was read and parsed
Step1bMain(cfgOk, keyId, pub, o) ==
  IF ~cfgOk \/ pub.pem # "PUBLIC KEY" \/ o \in {"jwk", "jwksOpen"}
    THEN [exit |-> 1, opened |-> FALSE, jwks |-> NoJwks]
  ELSE IF o = "jwksWrite"
    THEN [exit |-> 1, opened |-> TRUE, jwks |-> TruncatedJwks]
  ELSE [exit |-> 0, opened |-> TRUE, jwks |-> JWKSDoc(JWK(keyId, pub))]

\* everything but the key files and the builders
outsideBuilder == <<scriptVars, tokFile, procVars, ltVars, histVars, cacheVars>>

\* a builder has run
BuilderRan(prog, a, now, r) ==
  /\ bProg' = prog
  /\ bArgs' = a
  /\ bNow' = IF r.signed THEN now ELSE 0
  /\ bKeyOpened' = r.opened
  /\ bSigned' = r.signed
  /\ tokenString' = r.tok
  /\ bExit' = r.exit
  /\ jwtFile' = IF r.file = Unwritten THEN jwtFile ELSE r.file

\* how generate-keys can end: both files written, or the call that failed
KeygenOutcomes ==
  {"ok", "keygen", "createPriv", "writePriv", "createPub", "writePub"}

\* a generate-keys that creates its files before it generates the key
GenerateKeysMainCreateFirst(o, priv, pub) ==
  IF o = "ok"
    THEN [exit |-> 0, err |-> "none", priv |-> PrivKey(1), pub |-> PubKey(1)]
    ELSE [exit |-> 1, err |-> o, priv |-> NotPEM, pub |-> NotPEM]

\* main of cmd/generate-keys: exit status, the call that failed, and the
\* bytes left in the two key files; os.Create truncates the file it opens
GenerateKeysMain(o, priv, pub) ==
  IF o = "keygen"                       \* rsa.GenerateKey
    THEN [exit |-> 1, err |-> o, priv |-> priv, pub |-> pub]
  ELSE IF o = "createPriv"              \* os.Create(*privateKeyPath)
    THEN [exit |-> 1, err |-> o, priv |-> priv, pub |-> pub]
  ELSE IF o = "writePriv"               \* pem.Encode(privateKeyFile, ...)
    THEN [exit |-> 1, err |-> o, priv |-> NotPEM, pub |-> pub]
  ELSE IF o = "createPub"               \* os.Create(*publicKeyPath)
    THEN [exit |-> 1, err |-> o, priv |-> PrivKey(1), pub |-> pub]
  ELSE IF o = "writePub"                \* pem.Encode(publicKeyFile, ...)
    THEN [exit |-> 1, err |-> o, priv |-> PrivKey(1), pub |-> NotPEM]
  ELSE [exit |-> 0, err |-> "none", priv |-> PrivKey(1), pub |-> PubKey(1)]

\* go run cmd/generate-keys/main.go --private-key ... --public-key ...
GenerateKeys(o) ==
  /\ bpc = "genKeys"
  /\ bpc' = "genJwk"
  /\ LET r == GenerateKeysMain(o, privFile, pubFile) IN
       /\ gkExit' = r.exit
       /\ gkErr' = r.err
       /\ privFile' = r.priv
       /\ pubFile' = r.pub
  /\ UNCHANGED <<KEY_ID, jwksFile, jwksExported, bProg, bArgs, bNow,
                 bKeyOpened, bSigned, tokenString, bExit, jwtFile>>
  /\ UNCHANGED outsideBuilder

\* go run cmd/generate-jwk/main.go --key-id "$KEY_ID" ...
GenerateJwk(o) ==
  /\ bpc = "genJwk"
  /\ bpc' = "createJwt"
  /\ LET r == GenerateJwkMain(KEY_ID, pubFile, o) IN
       /\ jwksFile' = IF r.opened THEN r.jwks ELSE jwksFile
       /\ jwksExported' = (r.exit = 0)
  /\ UNCHANGED <<KEY_ID, privFile, pubFile, gkExit, gkErr, bProg, bArgs, bNow,
                 bKeyOpened, bSigned, tokenString, bExit, jwtFile>>
  /\ UNCHANGED outsideBuilder

\* a user runs step1b_generate_jwk; KEY_ID stands for key_id of config.json
Step1bGenerateJwk(cfgOk, o) ==
  /\ bpc = "legacy1b"
  /\ bpc' = "legacy1bEnd"
  /\ LET r == Step1bMain(cfgOk, KEY_ID, pubFile, o) IN
       /\ jwksFile' = IF r.opened THEN r.jwks ELSE jwksFile
       /\ jwksExported' = (r.exit = 0)
  /\ UNCHANGED <<KEY_ID, privFile, pubFile, gkExit, gkErr, bProg, bArgs, bNow,
                 bKeyOpened, bSigned, tokenString, bExit, jwtFile>>
  /\ UNCHANGED outsideBuilder

\* go run cmd/create-jwt/main.go --key-id "$KEY_ID" ...
ScriptCreateJwt(now, signOk, w) ==
  /\ bpc = "createJwt"
  /\ bpc' = "scriptEnd"
  /\ BuilderRan("create-jwt", ScriptJwtFlags(KEY_ID), now,
                CreateJwtMain(ScriptJwtFlags(KEY_ID), privFile, now, signOk, w))
  /\ UNCHANGED <<KEY_ID, privFile, pubFile, jwksFile, jwksExported, gkExit,
                 gkErr>>
  /\ UNCHANGED outsideBuilder

\* a user runs create-jwt with flags of their own
ManualCreateJwt(f, now, signOk, w) ==
  /\ bpc = "tool"
  /\ bpc' = "toolEnd"
  /\ BuilderRan("create-jwt", f, now,
                CreateJwtMain(f, privFile, now, signOk, w))
  /\ UNCHANGED <<KEY_ID, privFile, pubFile, jwksFile, jwksExported, gkExit,
                 gkErr>>
  /\ UNCHANGED outsideBuilder

\* a user runs step2_create_jwt.go
Step2CreateJwt(cfgOk, c, now, signOk, w) ==
  /\ bpc = "legacy"
  /\ bpc' = "legacyEnd"
  /\ BuilderRan("step2", IF cfgOk THEN c ELSE NoArgs, now,
                Step2Main(cfgOk, c, privFile, now, signOk, w))
  /\ UNCHANGED <<KEY_ID, privFile, pubFile, jwksFile, jwksExported, gkExit,
                 gkErr>>
  /\ UNCHANGED outsideBuilder

\* no builder has run
NoBuilderRun ==
  /\ jwksExported = FALSE
  /\ gkExit = -1
  /\ gkErr = "none"
  /\ bProg = "none"
  /\ bArgs = NoArgs
  /\ bNow = 0
  /\ bKeyOpened = FALSE
  /\ bSigned = FALSE
  /\ tokenString = Empty
  /\ bExit = -1

\* the key and assertion tools are not in use
BuilderIdle ==
  /\ bpc = "idle"
  /\ KEY_ID = "key-1"
  /\ privFile = NoKeyFile
  /\ pubFile = NoKeyFile
  /\ jwksFile = NoJwks
  /\ NoBuilderRun

\* execute_all.sh at its generate-keys step, or a user about to run one of
\* the builders; the files are those an earlier execution may have left
BuilderInit ==
  /\ privFile \in {NoKeyFile, NotPEM, PrivKey(0)}
  /\ \/ /\ bpc = "genKeys"
        /\ KEY_ID \in {KeyIdOrDefault(e) : e \in {"", "key-2"}}
        /\ pubFile \in {NoKeyFile, PubKey(0)}
        /\ jwksFile \in {NoJwks} \cup {JWKSDoc(JWK(k, PubKey(0))) : k \in KeyIds}
     \/ /\ bpc \in {"tool", "legacy"}
        /\ KEY_ID = KeyIdOrDefault("")
        /\ pubFile = NoKeyFile
        /\ jwksFile = NoJwks
     \/ /\ bpc = "legacy1b"
        /\ KEY_ID \in {"", "key-1"}
        /\ pubFile \in {NoKeyFile, NotPEM, PubKey(0)}
        /\ jwksFile \in {NoJwks, JWKSDoc(JWK("key-2", PubKey(0)))}
  /\ NoBuilderRun

Clock == 0..MaxBuilderTicks

BuilderNext ==
  \/ \E o \in KeygenOutcomes : GenerateKeys(o)
  \/ \E o \in {"ok", "jwk", "jwksOpen", "jwksWrite"} : GenerateJwk(o)
  \/ \E cfgOk \in BOOLEAN, o \in {"ok", "jwk", "jwksOpen", "jwksWrite"} :
       Step1bGenerateJwk(cfgOk, o)
  \/ \E now \in Clock, signOk \in BOOLEAN, w \in WriteOutcomes :
       ScriptCreateJwt(now, signOk, w)
  \/ \E f \in ManualFlags, now \in Clock, signOk \in BOOLEAN,
        w \in WriteOutcomes : ManualCreateJwt(f, now, signOk, w)
  \/ \E cfgOk \in BOOLEAN, c \in Step2Configs, now \in Clock,
        signOk \in BOOLEAN, w \in WriteOutcomes :
       Step2CreateJwt(cfgOk, c, now, signOk, w)

(***************************************************************************)
(* TokenCache (TECHNICAL_DETAILS.md, "Token Caching")                      *)
(*                                                                         *)
(* GetToken is followed statement by statement for the goroutines that     *)
(* share one TokenCache; the type holds no lock.  exchangeToken is the     *)
(* environment: its d-th call returns DerivedToken(d) and a lifetime.      *)
(***************************************************************************)
Goroutines == {"g1", "g2"}
\* the clock stops here
MaxClock == 1200
\* exchangeToken is called at most this often
MaxDerivations == 3
\* 5 * time.Minute, in seconds
SafetyMargin == 300
\* the clock advances in these steps
ClockSteps == {SafetyMargin}
\* the lifetimes exchangeToken reports, in seconds
ExpiresIns ==
  {SafetyMargin, SafetyMargin + SafetyMargin \div 2, 3 * SafetyMargin}
\* the zero time.Time lies before every reading of the clock
ZeroTime == 0

DerivedToken(d) == <<"c">> \o Xs(d)
DerivedTokens == {DerivedToken(d) : d \in 1..MaxDerivations}
\* newToken and expiresIn before exchangeToken has returned
NoNew == [token |-> Empty, expiresIn |-> 0, d |-> 0]

\* everything but the TokenCache
outsideCache == <<pipelineVars, builderVars>>

\* a test that never finds the cached token usable
NeverFresh(now, expiresAt) == FALSE

\* the comparison without the five minutes
StillFreshToTheEnd(now, expiresAt) == now < expiresAt

\* time.Now().Before(c.expiresAt.Add(-5 * time.Minute))
StillFresh(now, expiresAt) == now < expiresAt - SafetyMargin

\* an expiry that forgets the lifetime
NewExpiresAtWithoutLifetime(now, expiresIn) == now

\* time.Now().Add(time.Duration(expiresIn) * time.Second)
NewExpiresAt(now, expiresIn) == now + expiresIn

OthersIdle(g) == \A h \in Goroutines \ {g} : gpc[h] = "idle"

\* a goroutine calls GetToken
Call(g) ==
  /\ gpc[g] = "idle"
  /\ gpc' = [gpc EXCEPT ![g] = "check"]
  /\ gRet' = [gRet EXCEPT ![g] = Empty]
  /\ gVia' = [gVia EXCEPT ![g] = "none"]
  /\ gAlone' = [h \in Goroutines |->
                  IF h = g THEN OthersIdle(g)
                  ELSE IF gpc[h] # "idle" THEN FALSE ELSE gAlone[h]]
  /\ UNCHANGED <<cNow, cacheToken, cacheExpiresAt, gNew, gNow, nDerive, expiryOf>>
  /\ UNCHANGED outsideCache

\* the if statement: return the cached token, or call exchangeToken
Check(g) ==
  /\ gpc[g] = "check"
  /\ IF StillFresh(cNow, cacheExpiresAt)
       THEN /\ gpc' = [gpc EXCEPT ![g] = "hit"]
            /\ UNCHANGED <<gNew, nDerive>>
       ELSE /\ nDerive < MaxDerivations
            /\ gpc' = [gpc EXCEPT ![g] = "exchange"]
            /\ nDerive' = nDerive + 1
            /\ gNew' = [gNew EXCEPT ![g] = [NoNew EXCEPT !.d = nDerive + 1]]
  /\ gNow' = [gNow EXCEPT ![g] = cNow]
  /\ UNCHANGED <<cNow, cacheToken, cacheExpiresAt, gRet, gVia, gAlone, expiryOf>>
  /\ UNCHANGED outsideCache

\* return c.token, nil in the if statement
HitReturn(g) ==
  /\ gpc[g] = "hit"
  /\ gpc' = [gpc EXCEPT ![g] = "idle"]
  /\ gRet' = [gRet EXCEPT ![g] = cacheToken]
  /\ gVia' = [gVia EXCEPT ![g] = "hit"]
  /\ gNow' = [gNow EXCEPT ![g] = 0]
  /\ UNCHANGED <<cNow, cacheToken, cacheExpiresAt, gNew, gAlone, nDerive, expiryOf>>
  /\ UNCHANGED outsideCache

\* newToken, expiresIn := exchangeToken()
ExchangeReturn(g, e) ==
  /\ gpc[g] = "exchange"
  /\ gpc' = [gpc EXCEPT ![g] = "setToken"]
  /\ gNew' = [gNew EXCEPT ![g] = [token |-> DerivedToken(gNew[g].d),
                                  expiresIn |-> e, d |-> gNew[g].d]]
  /\ UNCHANGED <<cNow, cacheToken, cacheExpiresAt, gRet, gVia, gAlone, gNow,
                 nDerive, expiryOf>>
  /\ UNCHANGED outsideCache

\* c.token = newToken
SetToken(g) ==
  /\ gpc[g] = "setToken"
  /\ gpc' = [gpc EXCEPT ![g] = "setExpiry"]
  /\ cacheToken' = gNew[g].token
  /\ UNCHANGED <<cNow, cacheExpiresAt, gNew, gRet, gVia, gAlone, gNow, nDerive, expiryOf>>
  /\ UNCHANGED outsideCache

\* c.expiresAt = time.Now().Add(...)
SetExpiry(g) ==
  /\ gpc[g] = "setExpiry"
  /\ gpc' = [gpc EXCEPT ![g] = "return"]
  /\ cacheExpiresAt' = NewExpiresAt(cNow, gNew[g].expiresIn)
  /\ expiryOf' = gNew[g].d
  /\ UNCHANGED <<cNow, cacheToken, gNew, gRet, gVia, gAlone, gNow, nDerive>>
  /\ UNCHANGED outsideCache

\* return c.token, nil at the end
Return(g) ==
  /\ gpc[g] = "return"
  /\ gpc' = [gpc EXCEPT ![g] = "idle"]
  /\ gRet' = [gRet EXCEPT ![g] = cacheToken]
  /\ gVia' = [gVia EXCEPT ![g] = "refresh"]
  /\ gNew' = [gNew EXCEPT ![g] = NoNew]
  /\ gNow' = [gNow EXCEPT ![g] = 0]
  /\ UNCHANGED <<cNow, cacheToken, cacheExpiresAt, gAlone, nDerive, expiryOf>>
  /\ UNCHANGED outsideCache

\* time passes
Tick(d) ==
  /\ cNow + d <= MaxClock
  /\ cNow' = cNow + d
  /\ UNCHANGED <<cacheToken, cacheExpiresAt, gpc, gNew, gRet, gVia, gAlone, gNow,
                 nDerive, expiryOf>>
  /\ UNCHANGED outsideCache

\* a TokenCache{} and goroutines that have not called it
CacheInit ==
  /\ cNow = 0
  /\ cacheToken = Empty
  /\ cacheExpiresAt = ZeroTime
  /\ gpc = [g \in Goroutines |-> "idle"]
  /\ gNew = [g \in Goroutines |-> NoNew]
  /\ gRet = [g \in Goroutines |-> Empty]
  /\ gVia = [g \in Goroutines |-> "none"]
  /\ gAlone = [g \in Goroutines |-> TRUE]
  /\ gNow = [g \in Goroutines |-> 0]
  /\ nDerive = 0
  /\ expiryOf = 0

CacheNext ==
  \/ \E g \in Goroutines : Call(g)
  \/ \E g \in Goroutines : Check(g)
  \/ \E g \in Goroutines : HitReturn(g)
  \/ \E g \in Goroutines, e \in ExpiresIns : ExchangeReturn(g, e)
  \/ \E g \in Goroutines : SetToken(g)
  \/ \E g \in Goroutines : SetExpiry(g)
  \/ \E g \in Goroutines : Return(g)
  \/ \E d \in ClockSteps : Tick(d)

(***************************************************************************)
(* The system                                                              *)
(***************************************************************************)
\* execute_all.sh before the create-jwt step
PipelineInit ==
  /\ spc = "createJwt"
  /\ RETRY_COUNT = 0
  /\ slept = 0
  /\ scriptExit = -1
  /\ PROJECT_NUMBER \in {"", "123456789"}
  /\ saUrlOk \in BOOLEAN
  /\ jwtFile \in {NoFile, StaleAssertion}
  /\ tokFile \in {NoFile, StaleAccToken}
  /\ epc = "none"
  /\ externalToken = Empty
  /\ federatedToken = NilToken
  /\ accessToken = NilToken
  /\ err = NoErr
  /\ exitCode = -1
  /\ reqA = 0
  /\ reqB = 0
  /\ wireA = Empty
  /\ bodyA = Empty
  /\ wireB = Empty
  /\ stsIssued = NoFile
  /\ iamIssued = NoFile
  /\ lpc = "none"
  /\ ltBearer = Empty
  /\ ltExit = -1
  /\ ltErr = NoErr
  /\ ltItems = << >>
  /\ totA = 0
  /\ totB = 0
  /\ onlyDenied = TRUE
  /\ bOkAt = 0
  /\ submitted = {}

Init == PipelineInit /\ CacheInit /\ BuilderIdle

Next ==
  \/ \E ok \in BOOLEAN : CreateJwt(ok)
  \/ LoopIter
  \/ ExchangeMain
  \/ \E resp \in STSResponses : STSReturn(resp)
  \/ STSNoAnswer
  \/ \E resp \in IAMResponses, w \in WriteOutcomes : IAMReturn(resp, w)
  \/ IAMNoAnswer
  \/ AttemptCheck
  \/ RunListTopics
  \/ \E resp \in PubSubResponses : PubSubReturn(resp)
  \/ PubSubNoAnswer
  \/ ScriptFinish

Spec == Init /\ [][Next]_vars

\* every process that can take a step eventually takes one
FairSpec == Spec /\ WF_vars(Next)

\* a user about to run exchange-token or step3_exchange_token by hand; the
\* files are those an earlier step or execution may have left
ExchangeInit ==
  /\ spc \in {"manual", "step3"}
  /\ RETRY_COUNT = 0
  /\ slept = 0
  /\ scriptExit = -1
  /\ PROJECT_NUMBER = "123456789"
  /\ saUrlOk \in BOOLEAN
  /\ jwtFile \in {NoFile, StaleAssertion, NewAssertion}
  /\ tokFile \in {NoFile, StaleAccToken}
  /\ epc = "start"
  /\ externalToken = Empty
  /\ federatedToken = NilToken
  /\ accessToken = NilToken
  /\ err = NoErr
  /\ exitCode = -1
  /\ reqA = 0
  /\ reqB = 0
  /\ wireA = Empty
  /\ bodyA = Empty
  /\ wireB = Empty
  /\ stsIssued = NoFile
  /\ iamIssued = NoFile
  /\ lpc = "none"
  /\ ltBearer = Empty
  /\ ltExit = -1
  /\ ltErr = NoErr
  /\ ltItems = << >>
  /\ totA = 0
  /\ totB = 0
  /\ onlyDenied = TRUE
  /\ bOkAt = 0
  /\ submitted = {}

ExchangeNext ==
  \/ \E f \in ManualExchangeFlags : RunExchangeToken(f)
  \/ \E cfgOk \in BOOLEAN, c \in Step3Configs : RunStep3(cfgOk, c)
  \/ \E resp \in STSResponses : STSReturn(resp)
  \/ STSNoAnswer
  \/ \E resp \in IAMResponses, w \in WriteOutcomes : IAMReturn(resp, w)
  \/ IAMNoAnswer

ExchangeSpecInit == ExchangeInit /\ CacheInit /\ BuilderIdle

\* exchange-token and step3_exchange_token run by hand
ExchangeSpec == ExchangeSpecInit /\ [][ExchangeNext]_vars

\* execute_all.sh at rest
PipelineQuiet ==
  /\ PipelineInit
  /\ PROJECT_NUMBER = "123456789" /\ saUrlOk
  /\ jwtFile = NoFile /\ tokFile = NoFile

\* goroutines of one process calling GetToken on a shared TokenCache
CacheSpecInit == PipelineQuiet /\ CacheInit /\ BuilderIdle

CacheSpec == CacheSpecInit /\ [][CacheNext]_vars

\* the token file may hold the assertion of an earlier execution
BuilderSpecInit ==
  /\ PipelineInit
  /\ PROJECT_NUMBER = "123456789" /\ saUrlOk
  /\ tokFile = NoFile
  /\ CacheInit
  /\ BuilderInit

\* the key and assertion steps of execute_all.sh, and the builders run by
\* hand
BuilderSpec == BuilderSpecInit /\ [][BuilderNext]_vars

(***************************************************************************)
(* Properties                                                              *)
(***************************************************************************)
\* where the two-stage pipeline of the running process stands (main.go:52-98)
PipelineState ==
  IF err.stage \in {"STS", "IAM"} THEN "Failed"
  ELSE IF accessToken # NilToken THEN "HaveAccessToken"
  ELSE IF federatedToken # NilToken THEN "HaveFederatedToken"
  ELSE "NotStarted"

\* the script is past its retry loop or has given up
LoopEnded == spc \in {"listTopics", "listing", "done", "exit1"}

\* an HTTP round trip is under way
InRoundTrip ==
  \/ epc \in {"stageA", "blockedA", "stageB", "blockedB"}
  \/ lpc \in {"resource", "blocked"}

\* the STS endpoint answered this process with a 200 whose body parsed
StageASucceeded == stsIssued # NoFile

\* C1: a generateAccessToken request is issued only by a process whose STS
\* call returned success, and a process whose STS call failed (transport
\* error, non-200 status, unparsable body) exits with status 1 without
\* having issued a generateAccessToken request.
C1_StageBOnlyAfterStageA ==
  /\ (reqB > 0 => reqA > 0 /\ StageASucceeded)
  /\ (epc \in {"stageB", "blockedB"} => reqB > 0 /\ StageASucceeded)
  /\ (epc = "exited" /\ reqA > 0 /\ ~StageASucceeded
        => exitCode = 1 /\ reqB = 0 /\ err.stage = "STS")

\* a run whose STS call was answered 400 has ended
C1_Witness ==
  /\ epc = "exited" /\ reqA = 1 /\ ~StageASucceeded
  /\ err.stage = "STS" /\ err.kind = "status" /\ err.status = 400
  /\ reqB = 0 /\ exitCode = 1

\* C2: the bearer credential of every generateAccessToken request is the
\* access_token of the 200 answer the STS endpoint gave the same process,
\* and never the external JWT.
C2_StageBBearerIsFederatedToken ==
  reqB > 0 => /\ StageASucceeded
              /\ wireB = stsIssued
              /\ wireB = federatedToken.AccessToken
              /\ wireB # externalToken

\* a generateAccessToken request carrying a federated token is in flight
C2_Witness == epc = "stageB" /\ reqB = 1 /\ wireB = FedToken(NumTokens)

\* C3: when the first two generateAccessToken requests of an execution are
\* answered 403 and the third one yields a saved token, the script leaves
\* the loop by its success branch and never exits 1, the execution holds
\* exactly 3 generateAccessToken requests, and every two consecutive
\* attempts are RETRY_DELAY = 10 seconds of sleep apart.
C3_RetryScenario ==
  (bOkAt = 3 /\ onlyDenied) =>
    /\ totB = 3
    /\ RETRY_COUNT >= 3
    /\ spc \in {"exchange", "listTopics", "listing", "done"}
    /\ scriptExit # 1
    /\ (spc = "done" => scriptExit = 0)
    /\ slept = RETRY_DELAY * (RETRY_COUNT - 1)

\* two denials, success on the third attempt, 20 seconds of sleep
C3_Witness ==
  /\ bOkAt = 3 /\ onlyDenied /\ RETRY_COUNT = 3 /\ totB = 3
  /\ slept = 2 * RETRY_DELAY /\ spc = "done" /\ scriptExit = 0

\* the counting part of the retry loop: at most MAX_RETRIES attempts, one
\* sleep of RETRY_DELAY between two attempts, exit 1 only after the last
RetryLoopBounds ==
  /\ RETRY_COUNT <= MAX_RETRIES
  /\ (spc = "exchange" => slept = RETRY_DELAY * (RETRY_COUNT - 1))
  /\ (spc = "exit1" => RETRY_COUNT = MAX_RETRIES /\ scriptExit = 1)

\* C4: the retry loop starts at most MAX_RETRIES = 30 attempts, sleeps
\* RETRY_DELAY = 10 seconds between consecutive attempts, exits 1 when the
\* 30th attempt has failed, and always terminates.
C4_BoundedRetry == []RetryLoopBounds /\ <>LoopEnded

\* C5: the script starts another attempt only after an attempt that failed
\* with a 403 of generateAccessToken; after every other failure it does
\* not go back to the head of the loop.
C5_RetryOnlyOnPermissionDenied ==
  [][(spc = "exchange" /\ spc' = "loop")
       => (err.stage = "IAM" /\ err.kind = "status" /\ err.status = 403)]_vars

\* C6: one exchange-token process issues at most one STS request and at
\* most one generateAccessToken request; once it is past the start it has
\* issued exactly one STS request, and an answer that is no success ends
\* it with that error after the single request.
C6_OneRequestPerStage ==
  /\ reqA <= 1
  /\ reqB <= 1
  /\ (epc \in {"stageA", "blockedA", "stageB", "blockedB"} => reqA = 1)
  /\ (epc = "exited" /\ err.stage = "STS" => reqA = 1 /\ reqB = 0 /\ exitCode = 1)
  /\ (epc = "exited" /\ err.stage = "IAM"
        => reqA = 1 /\ reqB = (IF err.kind = "newrequest" THEN 0 ELSE 1)
           /\ exitCode = 1)

\* a process ended by a 500 of the STS endpoint after its one request
C6_Witness ==
  /\ epc = "exited" /\ err.stage = "STS" /\ err.kind = "status"
  /\ err.status = 500
  /\ reqA = 1 /\ reqB = 0

\* C7: every STS request submits an assertion that no earlier attempt has
\* submitted.
C7_FreshAssertionPerAttempt ==
  [][totA' = totA + 1 => wireA' \notin submitted]_vars

\* C8: exchange-token saves the accessToken of the generateAccessToken
\* answer and nothing else, and the bearer credential list-topics presents
\* to Pub/Sub is that token, never the federated token of stage A.
C8_ResourceBearerIsAccessToken ==
  /\ (epc = "exited" /\ exitCode = 0 => tokFile = iamIssued)
  /\ (lpc # "none" => /\ ltBearer = iamIssued
                       /\ ltBearer \in AccTokens
                       /\ ltBearer # stsIssued
                       /\ ltBearer \notin FedTokens)

\* the Pub/Sub request is in flight with the token stage B returned
C8_Witness ==
  /\ lpc = "resource" /\ ltBearer = AccToken(NumTokens)
  /\ stsIssued \in FedTokens /\ iamIssued = ltBearer

\* the steps of the state model NotStarted -> HaveFederatedToken ->
\* HaveAccessToken, Failed from each call
PipelineTransitions ==
  { <<"NotStarted", "HaveFederatedToken">>, <<"NotStarted", "Failed">>,
    <<"HaveFederatedToken", "HaveAccessToken">>,
    <<"HaveFederatedToken", "Failed">> }

PipelineStep ==
  LET s == PipelineState
      t == PipelineState'
  IN /\ (epc' \in {"none", "start"} => t = "NotStarted")
     /\ (epc' \notin {"none", "start"} =>
           s = t \/ <<s, t>> \in PipelineTransitions)
     /\ (s = "NotStarted" /\ t # s => epc = "stageA")
     /\ (s = "HaveFederatedToken" /\ t # s /\ epc' \notin {"none", "start"}
           => epc = "stageB")

\* C9: within a process the pipeline moves only NotStarted ->
\* HaveFederatedToken -> HaveAccessToken, or to Failed from a stage call;
\* Failed and HaveAccessToken are left only by the start of another
\* process, which is at NotStarted with no request issued; the federated
\* token is in no file.
C9_PipelineStateModel ==
  /\ [][PipelineStep]_vars
  /\ [](epc = "start" => PipelineState = "NotStarted" /\ reqA = 0 /\ reqB = 0)
  /\ [](reqB > 0 => reqA > 0)
  /\ [](tokFile \notin FedTokens /\ jwtFile \notin FedTokens)

\* the second process starts at NotStarted after the first one had reached
\* stage B
C9_Witness ==
  /\ RETRY_COUNT = 2 /\ epc = "start" /\ totB = 1
  /\ PipelineState = "NotStarted"

\* C10: every HTTP round trip ends, and the execution reaches a terminal
\* state.
C10_RoundTripsEnd ==
  /\ [](InRoundTrip => <>(~InRoundTrip))
  /\ <>(spc \in {"done", "exit1"})

\* an answer that arrived with a status other than 200
NonOK(resp) == resp.net = "ok" /\ resp.status # StatusOK

\* C11: an answer with a status other than 200, at the STS request, at the
\* generateAccessToken request or at the Pub/Sub request, ends the process
\* with exit status 1 and an error that names the stage and holds the
\* status code and the bytes of the body as they arrived; a process exits 0
\* only when it reported no error.
C11_ErrorsCarryContext ==
  /\ [](epc = "exited" => (exitCode = 0 <=> err = NoErr))
  /\ [](lpc = "exited" => (ltExit = 0 <=> ltErr = NoErr))
  /\ [][/\ \A resp \in STSResponses :
             STSReturn(resp) /\ NonOK(resp) =>
               /\ epc' = "exited" /\ exitCode' = 1
               /\ err' = [stage |-> "STS", kind |-> "status",
                          status |-> resp.status, body |-> resp.body]
        /\ \A resp \in IAMResponses, w \in WriteOutcomes :
             IAMReturn(resp, w) /\ NonOK(resp) =>
               /\ epc' = "exited" /\ exitCode' = 1
               /\ err' = [stage |-> "IAM", kind |-> "status",
                          status |-> resp.status, body |-> resp.body]
        /\ \A resp \in PubSubResponses :
             PubSubReturn(resp) /\ NonOK(resp) =>
               /\ lpc' = "exited" /\ ltExit' = 1
               /\ ltErr' = [stage |-> "PubSub", kind |-> "status",
                            status |-> resp.status, body |-> resp.body]]_vars

\* list-topics has ended on a 403 whose body holds white space at both ends
C11_Witness ==
  /\ lpc = "exited" /\ ltExit = 1
  /\ ltErr.stage = "PubSub" /\ ltErr.kind = "status" /\ ltErr.status = 403
  /\ ltErr.body = <<" ", "e", "\n">>

\* a 200 answer whose body parsed
OKParsed(resp) == resp.net = "ok" /\ resp.status = StatusOK /\ resp.json

\* C12: for every 200 answer of generateAccessToken whose body parses, the
\* TokenResponse main receives holds the accessToken field of the answer,
\* token type "Bearer" and a lifetime of 3600 seconds, whether the answer
\* holds an expireTime or not and whatever its value.
C12_StageBNormalization ==
  /\ \A resp \in IAMResponses, x \in ExpireTimes :
       OKParsed(resp) =>
         exchangeForAccessToken(WithExpireTime(resp, x))
           = exchangeForAccessToken(resp)
  /\ [][\A resp \in IAMResponses, w \in WriteOutcomes :
          IAMReturn(resp, w) /\ OKParsed(resp) =>
            accessToken' = [AccessToken |-> resp.token, TokenType |-> "Bearer",
                            ExpiresIn |-> 3600]]_vars

\* a process has saved the token of a 200 answer of generateAccessToken
C12_Witness ==
  /\ epc = "exited" /\ exitCode = 0 /\ iamIssued = AccToken(1)
  /\ accessToken = [AccessToken |-> AccToken(1), TokenType |-> "Bearer",
                    ExpiresIn |-> 3600]

\* C13: a call of GetToken that finds now < expiresAt - 5 minutes returns
\* the token the cache holds, calls exchangeToken not at all and leaves
\* c.token and c.expiresAt as they are; the calls answered from the cache
\* after one derivation all return the token of that derivation.
C13_CacheHit ==
  /\ [][\A g \in Goroutines :
          /\ (gpc[g] = "check" /\ gpc'[g] # "check"
                /\ cNow < cacheExpiresAt - 300) =>
               /\ gpc'[g] = "hit"
               /\ nDerive' = nDerive
               /\ cacheToken' = cacheToken
               /\ cacheExpiresAt' = cacheExpiresAt
          /\ (gpc[g] = "hit" /\ gpc'[g] # "hit") =>
               /\ gRet'[g] = cacheToken
               /\ nDerive' = nDerive
               /\ cacheToken' = cacheToken
               /\ cacheExpiresAt' = cacheExpiresAt]_vars
  /\ [](\A g, h \in Goroutines :
          (gVia[g] = "hit" /\ gVia[h] = "hit" /\ nDerive = 1) =>
            gRet[g] = gRet[h] /\ gRet[g] = DerivedToken(1))

\* after one derivation, both goroutines were answered from the cache with
\* the same token, one of them later than the other
C13_Witness ==
  /\ nDerive = 1 /\ cNow > 0
  /\ \A g \in Goroutines : gpc[g] = "idle" /\ gVia[g] = "hit"
  /\ gRet["g1"] = gRet["g2"] /\ gRet["g1"] = cacheToken
  /\ cacheToken = DerivedToken(1)

\* C14: a call of GetToken that finds now >= expiresAt - 5 minutes calls
\* exchangeToken once, and exchangeToken is called nowhere else; a call
\* during which no other goroutine is in GetToken stores the new token and
\* the clock reading plus the new lifetime, and returns the new token;
\* a later call inside the new window calls exchangeToken not at all.
C14_CacheRefresh ==
  [][/\ \A g \in Goroutines :
          /\ (gpc[g] = "check" /\ gpc'[g] # "check"
                /\ cNow >= cacheExpiresAt - 300) =>
               gpc'[g] = "exchange" /\ nDerive' = nDerive + 1
          /\ (gpc[g] = "check" /\ gpc'[g] # "check"
                /\ cNow < cacheExpiresAt - 300) => nDerive' = nDerive
          /\ (gpc[g] = "setExpiry" /\ gpc'[g] # "setExpiry" /\ gAlone[g]) =>
               /\ cacheToken' = DerivedToken(nDerive)
               /\ cacheToken' = gNew[g].token
               /\ cacheExpiresAt' = cNow + gNew[g].expiresIn
               /\ expiryOf' = nDerive
          /\ (gpc[g] = "return" /\ gpc'[g] # "return" /\ gAlone[g]) =>
               /\ gRet'[g] = DerivedToken(nDerive)
               /\ gRet'[g] = cacheToken'
     /\ (nDerive' # nDerive =>
           \E g \in Goroutines : gpc[g] = "check" /\ gpc'[g] = "exchange")
     /\ (cacheToken' # cacheToken \/ cacheExpiresAt' # cacheExpiresAt =>
           \E g \in Goroutines :
             gpc[g] \in {"setToken", "setExpiry"} /\ gpc'[g] # gpc[g])]_vars

\* the second derivation: a goroutine alone in GetToken found the token of
\* the first one too old, and has returned the new one
C14_Witness ==
  /\ nDerive = 2 /\ gpc["g1"] = "idle" /\ gVia["g1"] = "refresh" /\ gAlone["g1"]
  /\ gRet["g1"] = DerivedToken(2) /\ cacheToken = DerivedToken(2)
  /\ expiryOf = 2 /\ cacheExpiresAt > cNow

\* C15: under concurrent calls of GetToken, whenever no goroutine stands
\* between its two assignments, c.token and c.expiresAt come from the same
\* call of exchangeToken, and every token returned is one that
\* exchangeToken produced.
C15_LastWriterWins ==
  /\ ((\A g \in Goroutines : gpc[g] # "setExpiry") /\ expiryOf # 0
        => cacheToken = DerivedToken(expiryOf))
  /\ \A g \in Goroutines : gVia[g] # "none" => gRet[g] \in DerivedTokens

\* the input of the last builder run lacks a required claim
RequiredClaimMissing ==
  bArgs.issuer = "" \/ bArgs.subject = "" \/ bArgs.audience = ""

\* C16: a builder whose input lacks issuer, subject or audience (missing or
\* empty) exits 1 without having called SignedString with the private key,
\* and no assertion is produced or written.
C16_FailFastOnMissingClaim ==
  (bProg # "none" /\ RequiredClaimMissing) =>
    /\ bExit = 1
    /\ ~bSigned
    /\ tokenString = Empty
    /\ jwtFile = NoFile

\* C17: in every assertion a builder has signed, exp is iat plus 3600
\* seconds, both taken from the one reading of the clock, so exp > iat.
C17_ExpiryIsIssuedPlusHour ==
  (bProg # "none" /\ bSigned /\ tokenString # Empty) =>
    LET c == Decode(tokenString).claims IN
      /\ c.iat = bNow \div TicksPerSecond
      /\ c.exp = c.iat + 3600
      /\ c.exp > c.iat

\* execute_all.sh has built its assertion half a second into a second
C17_Witness ==
  /\ bpc = "scriptEnd" /\ bExit = 0 /\ bNow = 3 /\ jwtFile = tokenString
  /\ Decode(jwtFile).claims.iat = 1
  /\ Decode(jwtFile).claims.exp = 3601

\* the claim set a builder was given: the three required claims and the
\* optional attributes that were supplied
SuppliedClaims(a) ==
  [k \in {"iss", "sub", "aud"}
           \cup (IF a.email # "" THEN {"email"} ELSE {})
           \cup (IF a.environment # "" THEN {"environment"} ELSE {}) |->
     CASE k = "iss" -> a.issuer
       [] k = "sub" -> a.subject
       [] k = "aud" -> a.audience
       [] k = "email" -> a.email
       [] k = "environment" -> a.environment]

\* C18: the assertion a builder has written decodes to a header whose kid
\* is the key id given and to the claims given plus iat and exp and nothing
\* else; an optional attribute that was not supplied is not among them.
C18_ClaimRoundTrip ==
  (bProg # "none" /\ bExit = 0) =>
    LET d == Decode(jwtFile)
        C == SuppliedClaims(bArgs)
    IN /\ d.header.kid = bArgs.keyID
       /\ DOMAIN d.claims = DOMAIN C \cup {"iat", "exp"}
       /\ \A k \in DOMAIN C : d.claims[k] = C[k]

\* C19: in an execution of execute_all.sh the kid in the header of the
\* assertion create-jwt has built is $KEY_ID, every entry of the key set
\* generate-jwk has exported in that execution has the kid $KEY_ID, and so
\* the kid of the assertion is the kid of an entry of that key set.
C19_KeyIdAgreement ==
  /\ (bpc = "scriptEnd" /\ bExit = 0) =>
       LET kid == Decode(jwtFile).header.kid IN
         /\ kid = KEY_ID
         /\ (jwksExported =>
               \E i \in DOMAIN jwksFile.keys : jwksFile.keys[i].kid = kid)
  /\ (jwksExported =>
        /\ jwksFile.keys # << >>
        /\ \A i \in DOMAIN jwksFile.keys : jwksFile.keys[i].kid = KEY_ID)

\* an execution with KEY_ID=key-2 has exported the key set and built the
\* assertion
C19_Witness ==
  /\ bpc = "scriptEnd" /\ bExit = 0 /\ jwksExported /\ KEY_ID = "key-2"
  /\ Decode(jwtFile).header.kid = "key-2"
  /\ jwksFile.keys[1].kid = "key-2"

\* the names of a ListTopics answer, in the order of the answer; none when
\* the topics field is missing, null or an empty array
NamesIn(resp) ==
  IF resp.topics \in {Absent, <<"null">>} THEN << >> ELSE resp.topics

\* C20: when the Pub/Sub endpoint answers list-topics, a status other than
\* 200 ends the program with exit status 1 and an error that carries the
\* status and the body, whatever the body holds; a 200 answer with a JSON
\* body ends it with exit status 0 and no error, and the items reported are
\* the names of the answer in order (none for a missing, null or empty
\* list); the error with status and body is reported exactly when the status
\* is not 200.
C20_ResourceClientOutcomes ==
  [][\A resp \in PubSubResponses :
       (PubSubReturn(resp) /\ resp.net = "ok") =>
         /\ NonOK(resp) =>
              /\ ltExit' = 1
              /\ ltErr' = [stage |-> "PubSub", kind |-> "status",
                           status |-> resp.status, body |-> resp.body]
              /\ ltItems' = ltItems
         /\ OKParsed(resp) =>
              /\ ltExit' = 0
              /\ ltErr' = NoErr
              /\ ltItems' = NamesIn(resp)
         /\ (ltErr'.kind = "status") <=> NonOK(resp)]_vars

\* list-topics has ended successfully with zero items
C20_Witness ==
  /\ lpc = "exited"
  /\ ltExit = 0
  /\ ltErr = NoErr
  /\ ltItems = << >>
  /\ ltBearer # Empty

\* the parameters of the form the STS endpoint receives
StageAParams ==
  {"grant_type", "audience", "subject_token", "subject_token_type",
   "requested_token_type", "scope"}

\* the request of stage A, as the endpoint parses it, for the three inputs
StageARequestFor(form, projectNumber, poolID, providerID, assertion) ==
  /\ DOMAIN form = StageAParams
  /\ form.grant_type = "urn:ietf:params:oauth:grant-type:token-exchange"
  /\ form.audience =
       <<"//iam.googleapis.com/projects/", projectNumber,
         "/locations/global/workloadIdentityPools/", poolID,
         "/providers/", providerID>>
  /\ form.subject_token = assertion
  /\ form.subject_token_type = "urn:ietf:params:oauth:token-type:jwt"
  /\ form.requested_token_type = "urn:ietf:params:oauth:token-type:access_token"
  /\ form.scope = "https://www.googleapis.com/auth/cloud-platform"

\* C21: whatever project number, pool id and provider id exchange-token (or
\* step3_exchange_token) is run with, the form it posts to the STS endpoint
\* holds exactly the six parameters grant_type (token-exchange), audience,
\* subject_token (the bytes of the assertion file), subject_token_type (jwt),
\* requested_token_type (access_token) and scope, and the audience is
\* //iam.googleapis.com/projects/<project number>/locations/global/
\* workloadIdentityPools/<pool id>/providers/<provider id>.
C21_StageARequest ==
  [][/\ \A f \in ManualExchangeFlags :
          (RunExchangeToken(f) /\ epc' = "stageA") =>
            StageARequestFor(ParseQuery(bodyA'), f.projectNumber, f.poolID,
                             f.providerID, jwtFile)
     /\ \A c \in Step3Configs :
          (RunStep3(TRUE, c) /\ epc' = "stageA") =>
            StageARequestFor(ParseQuery(bodyA'), c.projectNumber, c.poolID,
                             c.providerID, jwtFile)]_vars

\* the STS request of a run with project number 1, pool p and provider q is
\* in flight
C21_Witness ==
  /\ spc = "manual" /\ epc = "stageA" /\ reqA = 1
  /\ ParseQuery(bodyA).audience =
       <<"//iam.googleapis.com/projects/", "1",
         "/locations/global/workloadIdentityPools/", "p", "/providers/", "q">>
  /\ ParseQuery(bodyA).subject_token = NewAssertion

\* the builder that has just ended called SignedString and got an error
SigningFailed == bSigned /\ tokenString = Empty

\* C22: when rsa.GenerateKey fails, generate-keys ends with exit status 1
\* and both key files are as they were; when SignedString fails, the
\* builder ends with exit status 1 and the token file is as it was; in both
\* cases the program has ended after that one call.
C22_CryptoFailuresAreFatal ==
  /\ [][(gkExit = -1 /\ gkErr' = "keygen") =>
          /\ gkExit' = 1
          /\ privFile' = privFile /\ pubFile' = pubFile
          /\ bpc' = "genJwk"]_vars
  /\ [][(bExit = -1 /\ bExit' # -1 /\ SigningFailed') =>
          /\ bExit' = 1
          /\ jwtFile' = jwtFile
          /\ bpc' \in {"scriptEnd", "toolEnd", "legacyEnd"}]_vars
  /\ [](gkErr = "keygen" => gkExit = 1)
  /\ [](bExit # -1 /\ SigningFailed => bExit = 1)

\* create-jwt of execute_all.sh has ended on a signing error, with the
\* assertion of an earlier execution still in the token file
C22_Witness ==
  /\ bpc = "scriptEnd" /\ bProg = "create-jwt" /\ SigningFailed
  /\ bExit = 1 /\ jwtFile = StaleAssertion

\* the members of a JWK of the exported key set
PublicJwkMembers == {"kty", "use", "kid", "alg", "n", "e"}

\* the members of the header and of the claims of an assertion
AssertionMembers ==
  {"alg", "kid", "typ", "iss", "sub", "aud", "iat", "exp", "email", "environment"}

\* the private exponents of the key pairs, bare and base64url-encoded
PrivateComponents ==
  {PrivateExponent(k) : k \in 0..1}
    \cup {EncodeSegment(PrivateExponent(k)) : k \in 0..1}

\* C23: the key set generate-jwk (or step1b_generate_jwk) has written holds
\* exactly one entry, with exactly the members kty = RSA, use = sig, kid =
\* the key id it was given, alg = RS256, and n and e = the base64url
\* encoding of modulus and public exponent of the key in the public key
\* file; no member holds a private exponent.  The assertion a builder has
\* written, which is what is sent to the federation endpoint, holds header,
\* claims and signature, and none of them is a private exponent.
C23_KeySetIsPublicOnly ==
  /\ jwksExported =>
       /\ Len(jwksFile.keys) = 1
       /\ LET jwk == jwksFile.keys[1] IN
            /\ DOMAIN jwk = PublicJwkMembers
            /\ jwk.kty = "RSA" /\ jwk.use = "sig" /\ jwk.alg = "RS256"
            /\ jwk.kid = KEY_ID
            /\ pubFile.pem = "PUBLIC KEY"
            /\ DecodeSegment(jwk.n) = Modulus(pubFile.key)
            /\ DecodeSegment(jwk.e) = PublicExponent(pubFile.key)
            /\ jwk.n[1] = "b64url" /\ jwk.e[1] = "b64url"
            /\ jwk.n \notin PrivateComponents /\ jwk.e \notin PrivateComponents
  /\ (bExit = 0) =>
       LET t == Decode(jwtFile) IN
         /\ DOMAIN t.header \cup DOMAIN t.claims \subseteq AssertionMembers
         /\ DOMAIN t.signature = {"signer", "input"}
         /\ t.signature.input = <<jwtFile[1], jwtFile[2]>>

\* generate-jwk has exported the key set of a new key pair under key-2
C23_Witness ==
  /\ bpc = "createJwt" /\ jwksExported /\ KEY_ID = "key-2"
  /\ pubFile = PubKey(1)
  /\ DecodeSegment(jwksFile.keys[1].n) = Modulus(1)

\* C24: the assertion a builder has written, signed with the key of the
\* private key file, verifies against the public half of that key pair and
\* against no other public key; after a generate-keys that wrote both files,
\* the assertion of execute_all.sh verifies against the public key file.
C24_SignatureIntegrity ==
  /\ (bExit = 0) =>
       /\ privFile.pem = "RSA PRIVATE KEY"
       /\ Verify(jwtFile, PubKey(privFile.key))
       /\ \A k \in KeyPairs \ {privFile.key} : ~Verify(jwtFile, PubKey(k))
  /\ (bpc = "scriptEnd" /\ gkExit = 0 /\ bExit = 0) =>
       /\ Verify(jwtFile, pubFile)
       /\ ~Verify(jwtFile, PubKey(0))

\* execute_all.sh has generated a key pair and signed an assertion with it
C24_Witness ==
  /\ bpc = "scriptEnd" /\ gkExit = 0 /\ bExit = 0
  /\ privFile = PrivKey(1) /\ pubFile = PubKey(1)
  /\ Verify(jwtFile, pubFile)

\* the script is past the loop and has not exited 1
PastLoop == spc \in {"listTopics", "listing", "done"}

\* C25: the loop removes the access-token file at the head of every
\* attempt; it is left by its success branch only after an exchange-token
\* that exited 0 and left a file that exists and is not empty; past the
\* loop the file holds the accessToken the generateAccessToken endpoint
\* returned to the last attempt, never what an earlier attempt or execution
\* left; an attempt that exits 0 with an empty file is followed by the
\* sleep and the next attempt, or by exit 1 when it was the last.
C25_TokenFileIsOfLastAttempt ==
  /\ [][(spc = "loop" /\ spc' = "exchange") => tokFile' = NoFile]_vars
  /\ [][(spc = "exchange" /\ spc' = "listTopics") =>
          /\ epc = "exited" /\ exitCode = 0
          /\ tokFile # NoFile /\ tokFile # Empty
          /\ tokFile' = tokFile]_vars
  /\ [](PastLoop =>
          /\ exitCode = 0 /\ reqB = 1
          /\ tokFile = iamIssued
          /\ tokFile = accessToken.AccessToken
          /\ tokFile \notin {NoFile, Empty, StaleAccToken})
  /\ [][(spc = "exchange" /\ epc = "exited" /\ exitCode = 0
            /\ tokFile = Empty /\ spc' # spc) =>
          IF RETRY_COUNT < MAX_RETRIES
            THEN spc' = "loop" /\ slept' = slept + RETRY_DELAY
            ELSE spc' = "exit1" /\ scriptExit' = 1]_vars

\* the second attempt has exited 0 and left an empty file
C25_Witness ==
  /\ spc = "exchange" /\ epc = "exited" /\ exitCode = 0
  /\ tokFile = Empty /\ iamIssued = Empty
  /\ RETRY_COUNT = 2 /\ slept = RETRY_DELAY

\* the last exchange-token of the loop exited 0 and left a token
LastAttemptSucceeded ==
  /\ epc = "exited" /\ exitCode = 0
  /\ tokFile # NoFile /\ Len(tokFile) > 0
  /\ bOkAt = totB /\ totB >= 1

\* C26: list-topics is started, and the SUCCESS banner printed, only after
\* the loop was left from an attempt that succeeded in this execution; the
\* script exits 1 only after MAX_RETRIES attempts of which none succeeded,
\* and then list-topics has not been started and never is, and the banner
\* is not printed.
C26_ListTopicsOnlyAfterSuccess ==
  /\ []((PastLoop \/ lpc # "none") => LastAttemptSucceeded /\ scriptExit # 1)
  /\ [][(spc # "listTopics" /\ spc' = "listTopics") =>
          spc = "exchange" /\ LastAttemptSucceeded]_vars
  /\ [](spc = "exit1" =>
          /\ scriptExit = 1 /\ lpc = "none" /\ ltExit = -1
          /\ RETRY_COUNT = MAX_RETRIES /\ bOkAt = 0
          /\ ~LastAttemptSucceeded)
  /\ [][spc = "exit1" => spc' = "exit1" /\ lpc' = "none"]_vars
  /\ [](spc = "done" => scriptExit = 0 /\ lpc = "exited")

\* all 30 attempts failed, the last at the generateAccessToken request, and
\* the script has exited 1
C26_Witness ==
  /\ spc = "exit1" /\ scriptExit = 1 /\ RETRY_COUNT = MAX_RETRIES
  /\ lpc = "none" /\ err.stage = "IAM" /\ bOkAt = 0

\* the run ended before os.WriteFile: a required flag (or the config) was
\* missing, the token file could not be read, or a stage returned an error
EndedBeforeWrite ==
  /\ epc = "exited"
  /\ \/ err.stage \in {"STS", "IAM"}
     \/ err.kind \in {"args", "config", "readtoken"}

\* C27: a run of exchange-token (or step3_exchange_token) that ends on a
\* missing flag, an unreadable token file or an error of stage A or stage B
\* exits 1 and leaves the output file as it found it; the file changes only
\* in the step that ends a run whose two stages both returned success; a
\* run that exits 0 has reported no error, has made one request per stage,
\* and the file holds exactly the accessToken stage B returned to it.
C27_OutputOnlyAfterBothStages ==
  /\ [][(epc # "exited" /\ EndedBeforeWrite') =>
          exitCode' = 1 /\ tokFile' = tokFile]_vars
  /\ [][tokFile' # tokFile =>
          /\ epc = "stageB" /\ epc' = "exited"
          /\ stsIssued # NoFile /\ iamIssued' # NoFile
          /\ accessToken' # NilToken
          /\ err'.kind \in {"none", "writetoken"}]_vars
  /\ [](EndedBeforeWrite =>
          exitCode = 1 /\ tokFile \in {NoFile, StaleAccToken})
  /\ []((epc = "exited" /\ exitCode = 0) =>
          /\ err = NoErr /\ reqA = 1 /\ reqB = 1
          /\ tokFile = iamIssued
          /\ tokFile = accessToken.AccessToken)

\* a run ended by a 403 of stage B has left the token of an earlier run in
\* the output file
C27_Witness ==
  /\ spc = "manual" /\ epc = "exited" /\ exitCode = 1
  /\ err.stage = "IAM" /\ err.kind = "status" /\ err.status = 403
  /\ reqB = 1 /\ tokFile = StaleAccToken

\* the attempt has read the token file
ReadTokenFile == epc # "start" /\ epc # "none" /\ err.kind \notin {"args", "readtoken"}

\* what the loop does with the assertion file and the two counts of
\* requests, apart from the requests of stage B of one attempt
AttemptAccounting ==
  /\ [][(totA' # totA) <=>
          (epc = "start" /\ epc' = "stageA" /\ totA' = totA + 1)]_vars
  /\ [][(totB' # totB) <=>
          (epc = "stageA" /\ epc' = "stageB" /\ totB' = totB + 1)]_vars
  /\ [][(spc \in {"loop", "exchange"}) => jwtFile' = jwtFile]_vars
  /\ [](reqA > 0 => wireA = jwtFile)
  /\ [](epc = "start" =>
          reqA = 0 /\ reqB = 0 /\ federatedToken = NilToken)
  /\ [](epc \notin {"none", "start"} => (reqA = 1 <=> ReadTokenFile))
  /\ []((bOkAt = 3 /\ onlyDenied /\ RETRY_COUNT = 3) =>
          totA = 3 /\ totB = 3)

AssertionValidity == ExpiresAt(bNow) - IssuedAt(bNow)

\* C29: the loop sleeps RETRY_DELAY seconds only after a failed attempt
\* that is not the last; before attempt n it has slept n - 1 times, after
\* the 30th failed attempt 29 times, 290 seconds, with no sleep after it;
\* the seconds slept stay below the 3600 seconds between iat and exp of the
\* assertion.
C29_SleepsBelowValidity ==
  /\ [][slept' # slept =>
          /\ spc = "exchange" /\ spc' = "loop"
          /\ RETRY_COUNT < MAX_RETRIES
          /\ slept' = slept + RETRY_DELAY]_vars
  /\ [](RETRY_COUNT >= 1 => slept \in {RETRY_DELAY * (RETRY_COUNT - 1),
                                       RETRY_DELAY * RETRY_COUNT})
  /\ [](spc = "exchange" => slept = RETRY_DELAY * (RETRY_COUNT - 1))
  /\ [](slept <= RETRY_DELAY * (MAX_RETRIES - 1))
  /\ [](slept <= 290 /\ slept \div RETRY_DELAY <= 29)
  /\ [](spc = "exit1" => slept = 290)
  /\ [](AssertionValidity = 3600 /\ slept < AssertionValidity)

\* the 30th attempt is at its STS request after 29 sleeps
C29_Witness ==
  /\ spc = "exchange" /\ epc = "stageA"
  /\ RETRY_COUNT = MAX_RETRIES /\ slept = 290

\* C30: GetToken returns without calling exchangeToken only through the
\* return of its if statement, which it reaches only when the expiry the
\* cache records is at least 5 minutes after the clock reading of the call;
\* a call that reads a clock value closer to the recorded expiry calls
\* exchangeToken itself. A call during which no other goroutine is in
\* GetToken returns from the if statement the token whose expiry it
\* compared. A TokenCache{} answers no call from the if statement: while no
\* call has derived, no call has returned, and no call returns the empty
\* token.
C30_NoStaleHit ==
  /\ [][\A g \in Goroutines :
          /\ (gpc[g] # "idle" /\ gpc'[g] = "idle" /\ gVia'[g] = "hit") =>
               gpc[g] = "hit" /\ gRet'[g] = cacheToken
          /\ (gpc[g] # "hit" /\ gpc'[g] = "hit") =>
               /\ gpc[g] = "check"
               /\ cacheExpiresAt - cNow >= 300
               /\ gNow'[g] = cNow
               /\ nDerive > 0
          /\ (gpc[g] = "check" /\ gpc'[g] # "check"
                /\ cacheExpiresAt - cNow < 300) =>
               gpc'[g] = "exchange" /\ nDerive' = nDerive + 1
          /\ (gpc[g] = "hit" /\ gpc'[g] = "idle" /\ gAlone[g]) =>
               /\ cacheExpiresAt - gNow[g] >= 300
               /\ gRet'[g] = cacheToken /\ gRet'[g] \in DerivedTokens]_vars
  /\ [](\A g \in Goroutines :
          /\ gVia[g] # "none" => gRet[g] # Empty /\ nDerive > 0
          /\ gpc[g] = "hit" => cacheToken # Empty)
  /\ [](nDerive = 0 =>
          /\ cacheToken = Empty /\ cacheExpiresAt = ZeroTime
          /\ \A g \in Goroutines :
               gpc[g] \in {"idle", "check"} /\ gVia[g] = "none")

\* a goroutine alone in GetToken stands at the return of the if statement,
\* some time after it read the clock; the token it is about to return is the
\* second derived one, the first one having been found too old by a call
C30_Witness ==
  /\ gpc["g1"] = "hit" /\ gAlone["g1"] /\ gpc["g2"] = "idle"
  /\ nDerive = 2 /\ cacheToken = DerivedToken(2) /\ expiryOf = 2
  /\ gNow["g1"] > 0 /\ cNow > gNow["g1"]
  /\ cacheExpiresAt - gNow["g1"] >= 300

====
